---- MODULE Spec2Model ----
(***************************************************************************)
(* Model of the on-the-road story server: the POST /api/story-both handler *)
(* of src/server.js (the revision that starts at line 925), its per-user   *)
(* history store (userPlacesHistoryMemory + user_place_history), its POI   *)
(* cache (placesCacheMemory + places_cache) and the story_logs helper of   *)
(* the database module.                                                    *)
(*                                                                         *)
(* Node runs one handler at a time and switches handlers only at an        *)
(* await, so every action below is the code between two awaits of one      *)
(* request.  Several requests are in flight at once (one per slot).        *)
(***************************************************************************)
EXTENDS Naturals, Integers, Sequences, FiniteSets

VARIABLES
  loc,         \* where the requests of this run come from (one coordinate bucket)
  pool,        \* TRUE iff DATABASE_URL is set (a pg Pool exists)
  heardMem,    \* userPlacesHistoryMemory : user -> NoSet | set of place ids
  heardDb,     \* user_place_history      : <<user, place>> -> number of rows
  cacheMem,    \* placesCacheMemory       : cache key -> NoEntry | POI list
  cacheDb,     \* places_cache            : cache key -> NoEntry | POI list
  storyLogs,   \* story_logs rows, in insertion order
  req,         \* slot -> the request being handled in that slot
  sent,        \* the response sent last, with what its request did on the way
  started,     \* number of requests accepted so far
  spoken,      \* history: <<user, place>> -> number of shouldSpeak=true responses sent
  ttsFailed,   \* history: <<user, place>> whose request was answered 500 after a TTS failure
  faults,      \* number of failures (provider, database, generator, TTS) injected so far
  now,         \* the clock, in hours since start-up
  memAt,       \* history: cache key -> the hour its placesCacheMemory entry was fetched
  rowAt,       \* places_cache.updated_at : cache key -> hour
  pq,          \* the GET /places request being handled
  plast,       \* the GET /places response sent last, with what its request did
  pprev,       \* history: cache key -> the list GET /places returned last for it, and when
  pcount,      \* number of GET /places requests accepted so far
  ttlCache,    \* _cache of utils.js : key -> NoTtlEntry | { value, expiresAt }
  lastSet,     \* history: key -> the value, hour and ttl of the latest cacheSet under it
  tgot,        \* the latest cacheGet: its key, hour and result, and what it met
  decision,    \* what findBestPoi of poiService.js returned last
  story,       \* what generateStoryText of storyService.js returned last
  ukey,        \* the latest call of getUserKeyFromRequest: its request and its result
  block,       \* the latest FACTS block built: the facts given and the lines each builder kept
  pick,        \* the latest choice among enriched candidates: the input order and the result
  byId,        \* byId of tasteService.js for one tasteProfileId: the taste stored, if any
  tcall,       \* the latest call of tasteService.js: its operation, its input and its result
  wikidataFactsMemory, \* wikidataFactsMemory of server.js: qid|lang => the result stored, if any
  lastLookup,  \* for each qid|lang, how the latest query of the knowledge graph for it ended
  wfacts,      \* the latest call of fetchWikidataFacts: its arguments, what it did and returned
  rt,          \* the POST /api/story-both request src/routes.js is handling
  rsent,       \* the response src/routes.js sent last, with what its request did
  rcount       \* number of requests src/routes.js has accepted so far

(* the state of POST /api/story-both and of its history store *)
handlerVars == <<heardMem, heardDb, storyLogs, req, sent, started, spoken, ttsFailed>>

(* the state of GET /places *)
placesVars == <<now, memAt, rowAt, pq, plast, pprev, pcount>>

(* the state of the TTL cache of utils.js *)
utilVars == <<ttlCache, lastSet, tgot>>

(* the latest results of the functions of poiService.js and storyService.js *)
serviceVars == <<decision, story, ukey, block, pick>>

(* the state of tasteService.js *)
tasteVars == <<byId, tcall>>

(* the facts cache of fetchWikidataFacts *)
graphVars == <<wikidataFactsMemory, lastLookup, wfacts>>

(* the state of POST /api/story-both of src/routes.js *)
routeVars == <<rt, rsent, rcount>>

(* the stores and switches the routes share *)
sharedVars == <<loc, pool, cacheMem, cacheDb, faults>>

vars == <<loc, pool, heardMem, heardDb, cacheMem, cacheDb, storyLogs, req, sent, started, spoken, ttsFailed, faults,
          now, memAt, rowAt, pq, plast, pprev, pcount, ttlCache, lastSet, tgot, decision, story, ukey, block, pick, byId, tcall,
          wikidataFactsMemory, lastLookup, wfacts,
          rt, rsent, rcount>>

----------------------------------------------------------------------------
(* Bounds of the model *)

MaxRequests == 2

(* at most this many steps of a behaviour meet a failing collaborator *)
MaxFaults == 1

(* GET /places requests of a run *)
MaxQueries == 2

(* hours the clock runs *)
MaxClock == 7

(* requests src/routes.js accepts in a run *)
MaxRouteRequests == 2

(* places googlePlacesNearby returns, facts getNearbyWikiContext and       *)
(* tryPersonFactsFromName return, facts of a POI that isSensitiveLine      *)
(* rejects                                                                 *)
MaxPlaces == 2
MaxWikiFacts == 8
MaxPersonFacts == 2
MaxSensitive == 2

(* GEO_CACHE_TTL_MS, 6 * 60 * 60 * 1000 by default, in hours *)
GeoCacheTtlHours == 6

Users == {"u1", "u2"}
Slots == {"s1", "s2"}

(* the places the cars of the model drive through *)
Locations == {"town", "desert"}

----------------------------------------------------------------------------
(* The world around the request location: what the three providers know.   *)
(* In town osm:1 and wd:Q1 are the same place seen by two providers (same  *)
(* name and coordinates, osm:1 carries a wikidata tag); wd:Q2 is further   *)
(* away and passes the quality gate only with its sitelink summary; gp:1   *)
(* is a commercial place without any facts and gp:2 the same place under a *)
(* name that differs in case.  Beyond the picking distance lie a cafe that *)
(* OSM lists twice (osm:2, and osm:3 with a trailing blank in its name)    *)
(* and Wikidata once (wd:Q3, in lower case, a few metres off), and another *)
(* cafe of the same name a block away (osm:4).  In the desert no provider  *)
(* knows a place within the largest radius.  lat and lng are in units of   *)
(* 0.00001 degree.                                                         *)

PoiIds == {"osm:1", "osm:2", "osm:3", "osm:4", "wd:Q1", "wd:Q2", "wd:Q3", "gp:1", "gp:2"}

(* no Set stored for the user in userPlacesHistoryMemory *)
NoSet   == [loaded |-> FALSE, set |-> {}]
(* no entry under the key in placesCacheMemory / no row in places_cache *)
NoEntry == [present |-> FALSE, pois |-> <<>>]
(* a rejected promise / a thrown error *)
Fail    == [ok |-> FALSE, pois |-> <<>>]
FailRows == [ok |-> FALSE, set |-> {}]
(* null *)
None    == "None"

SetOf(set)    == [loaded |-> TRUE, set |-> set]
(* EntryOf that stores nothing *)
EntryLost(pois) == NoEntry
EntryOf(pois) == [present |-> TRUE, pois |-> pois]
Ok(pois)      == [ok |-> TRUE, pois |-> pois]
OkRows(set)   == [ok |-> TRUE, set |-> set]

NoFacts ==
  [name |-> "c", lat |-> 3210012, lng |-> 3480012, dist |-> 350, qid |-> FALSE, wikiTag |-> FALSE,
   wdFacts |-> 0, wikiFacts |-> 0, slFacts |-> 0,
   namedAfter |-> FALSE, inception |-> FALSE, event |-> FALSE,
   heritage |-> FALSE, architect |-> FALSE]

PoiInfo ==
  [p \in PoiIds |->
     CASE p = "osm:1" -> [NoFacts EXCEPT !.name = "a", !.lat = 3210341, !.lng = 3480341, !.dist = 300,
                                         !.qid = TRUE, !.wikiTag = TRUE, !.wdFacts = 4,
                                         !.wikiFacts = 2, !.slFacts = 2, !.inception = TRUE]
       [] p = "wd:Q1" -> [NoFacts EXCEPT !.name = "a", !.lat = 3210338, !.lng = 3480344, !.dist = 300,
                                         !.qid = TRUE, !.wdFacts = 4, !.slFacts = 2,
                                         !.inception = TRUE]
       [] p = "wd:Q2" -> [NoFacts EXCEPT !.name = "b", !.lat = 3211001, !.lng = 3480001, !.dist = 1000,
                                         !.qid = TRUE, !.wdFacts = 3, !.slFacts = 2]
       [] p = "osm:2" -> [NoFacts EXCEPT !.name = "Cafe", !.lat = 3212101, !.lng = 3480002, !.dist = 2100]
       [] p = "osm:3" -> [NoFacts EXCEPT !.name = "Cafe ", !.lat = 3212101, !.lng = 3480002, !.dist = 2100]
       [] p = "osm:4" -> [NoFacts EXCEPT !.name = "Cafe", !.lat = 3212101, !.lng = 3480108, !.dist = 2100]
       [] p = "wd:Q3" -> [NoFacts EXCEPT !.name = "cafe", !.lat = 3212098, !.lng = 3480004, !.dist = 2100]
       [] p = "gp:2"  -> [NoFacts EXCEPT !.name = "C"]
       [] OTHER       -> NoFacts]

(* const radii = [400, 800, 1500, 2200] *)
Radii == <<400, 800, 1500, 2200>>

(* GET /places passes the mode of the query string to getNearbyPois; any   *)
(* mode but "interesting" takes the same branch there.                     *)
Modes == {"interesting", "food"}

(* makeCacheKey(lat, lng, radiusMeters, mode, language): the key names the *)
(* mode, the language, the coordinates to four decimals and the radius.    *)
(* One run stays in one coordinate bucket and one language.                *)
makeCacheKey(radiusIndex, mode) == <<mode, radiusIndex>>

CacheKeys == {makeCacheKey(i, m) : i \in DOMAIN Radii, m \in Modes}

(* getNearbyPois(lat, lng, r, "interesting", language) *)
HandlerKey(i) == makeCacheKey(i, "interesting")

(* if (d > 2000) continue; *)
MaxPickDistance == 2000

(* raw.slice(0, 16) *)
MaxEnriched == 16

(* facts.slice(0, 12) *)
MaxFactsKept == 12

(* const BTW_MIN_WORDS = 110; const BTW_MAX_WORDS = 190; *)
BtwMinWords == 110
BtwMaxWords == 190

----------------------------------------------------------------------------
(* Sequence helpers *)

RECURSIVE SelectSeqIn(_, _)
SelectSeqIn(s, keep) ==
  IF s = <<>> THEN <<>>
  ELSE IF Head(s) \in keep THEN <<Head(s)>> \o SelectSeqIn(Tail(s), keep)
       ELSE SelectSeqIn(Tail(s), keep)

Range(s) == {s[i] : i \in 1..Len(s)}

Prefix(s, n) == IF Len(s) <= n THEN s ELSE SubSeq(s, 1, n)

(* Array.prototype.sort with comparator (a, b) => key(a) - key(b): stable.  *)
(* Insert x after every element whose key is <= key[x].                    *)
RECURSIVE InsertByKey(_, _, _)
InsertByKey(x, s, key) ==
  IF s = <<>> THEN <<x>>
  ELSE IF key[Head(s)] <= key[x] THEN <<Head(s)>> \o InsertByKey(x, Tail(s), key)
       ELSE <<x>> \o s

RECURSIVE StableSortByKey(_, _)
StableSortByKey(s, key) ==
  IF s = <<>> THEN <<>>
  ELSE InsertByKey(s[Len(s)], StableSortByKey(SubSeq(s, 1, Len(s) - 1), key), key)

----------------------------------------------------------------------------
(* Source adapters: each either throws (Fail) or returns its POIs that lie *)
(* within the queried radius, in the provider's order.                     *)

InRange(s, radius) == SelectSeqIn(s, {p \in PoiIds : PoiInfo[p].dist <= radius})

OsmKnows == [town |-> <<"osm:1", "osm:2", "osm:3", "osm:4">>, desert |-> <<>>]
WdKnows  == [town |-> <<"wd:Q1", "wd:Q2", "wd:Q3">>, desert |-> <<>>]
GpKnows  == [town |-> <<"gp:1", "gp:2">>, desert |-> <<>>]

OsmList(radius) == InRange(OsmKnows[loc], radius)
WdList(radius)  == InRange(WdKnows[loc], radius)
GpList(radius)  == InRange(GpKnows[loc], radius)

AdapterOutcomes(list) == {Fail, Ok(list)}

(* String.prototype.trim on the names and header values of the model *)
Trim(str) ==
  CASE str = "Cafe " -> "Cafe"
    [] str = "cafe " -> "cafe"
    [] str = " "     -> ""
    [] str = " u7 "  -> "u7"
    [] str = " ,10.0.0.1" -> ",10.0.0.1"
    [] OTHER -> str

(* String.prototype.toLowerCase on the names of the model *)
ToLowerCase(str) ==
  CASE str = "Cafe"  -> "cafe"
    [] str = "Cafe " -> "cafe "
    [] str = "C"     -> "c"
    [] str = "Built in 1890."        -> "built in 1890."
    [] str = "Site of the 1967 War." -> "site of the 1967 war."
    [] str = "A warm spring."        -> "a warm spring."
    [] str = "FACT 2: Opened in 1901." -> "fact 2: opened in 1901."
    [] OTHER -> str

(* Number.prototype.toFixed(4) of a coordinate given in units of 0.00001   *)
(* degree: the coordinate rounded to units of 0.0001 degree                *)
ToFixed4(x) == (x + 5) \div 10

(* de-dupe by name+coord: the first POI of each key                        *)
(* `${name.trim().toLowerCase()}|${lat.toFixed(4)}|${lng.toFixed(4)}`      *)
(* is kept.                                                                *)
DedupeKey(p) ==
  <<ToLowerCase(Trim(PoiInfo[p].name)), ToFixed4(PoiInfo[p].lat), ToFixed4(PoiInfo[p].lng)>>

RECURSIVE DedupeFrom(_, _)
DedupeFrom(s, seen) ==
  IF s = <<>> THEN <<>>
  ELSE IF DedupeKey(Head(s)) \in seen THEN DedupeFrom(Tail(s), seen)
       ELSE <<Head(s)>> \o DedupeFrom(Tail(s), seen \cup {DedupeKey(Head(s))})

(* Dedupe that keeps every POI *)
DedupeNone(s) == s

Dedupe(s) == DedupeFrom(s, {})

(* GoogleCalled without its condition *)
GoogleCalledAlways(osm, wd) == TRUE

(* The adapter part of getNearbyPois in mode "interesting": OSM and        *)
(* Wikidata are joined with allSettled, Google is asked only when both     *)
(* gave nothing, and its failure is swallowed.                             *)
GoogleCalled(osm, wd) ==
  (IF osm.ok THEN osm.pois ELSE <<>>) \o (IF wd.ok THEN wd.pois ELSE <<>>) = <<>>

(* MergeInteresting with Promise.all in the place of Promise.allSettled    *)
(* and nothing returned once a provider has failed                         *)
MergeAllOrNothing(osm, wd, gp) ==
  IF osm.ok /\ wd.ok /\ gp.ok
  THEN (IF osm.pois \o wd.pois = <<>> THEN gp.pois ELSE osm.pois \o wd.pois)
  ELSE <<>>

MergeInteresting(osm, wd, gp) ==
  LET a == IF osm.ok THEN osm.pois ELSE <<>>
      b == IF wd.ok THEN wd.pois ELSE <<>>
      first == a \o b
  IN  IF first = <<>> THEN (IF gp.ok THEN gp.pois ELSE <<>>) ELSE first

----------------------------------------------------------------------------
(* Picking logic *)

BoolInt(b) == IF b THEN 1 ELSE 0

Min(a, b) == IF a <= b THEN a ELSE b
Max(a, b) == IF a >= b THEN a ELSE b

computeFactScore(d, meta, factsCount) ==
  d - 650 * BoolInt(meta.namedAfter)
    - 350 * BoolInt(meta.inception)
    - 650 * BoolInt(meta.event)
    - 450 * BoolInt(meta.heritage)
    - 250 * BoolInt(meta.architect)
    - Min(6, Max(0, factsCount)) * 120

countHardAnchors(meta) ==
  BoolInt(meta.namedAfter) + BoolInt(meta.inception) + BoolInt(meta.event) + BoolInt(meta.heritage)

NoMeta == [namedAfter |-> FALSE, inception |-> FALSE, event |-> FALSE,
           heritage |-> FALSE, architect |-> FALSE]

(* Facts collected for one candidate by the enrichment loop of             *)
(* pickBestPoiForUser.  up = FALSE: every lookup for this candidate failed *)
(* (each lookup swallows its own errors and returns no facts).             *)
EnrichedFacts(p, up) ==
  LET i     == PoiInfo[p]
      meta  == IF up /\ i.qid THEN i ELSE NoMeta
      f1    == IF up /\ i.qid THEN i.wdFacts ELSE 0
      a     == countHardAnchors(meta)
      ok1   == (f1 >= 4 /\ a >= 1) \/ f1 >= 6
      f2    == IF ~ok1 /\ i.wikiTag /\ up THEN f1 + i.wikiFacts ELSE f1
      ok2   == IF ok1 THEN TRUE ELSE (f2 >= 3 /\ a >= 1) \/ f2 >= 5
      f3    == IF ~ok2 /\ i.qid /\ up THEN f2 + i.slFacts ELSE f2
      ok3   == IF ok2 THEN TRUE ELSE (f3 >= 3 /\ a >= 1) \/ f3 >= 5
  IN  [ok |-> ok3, facts |-> Min(f3, MaxFactsKept), anchors |-> a,
       score |-> computeFactScore(i.dist, meta, f3)]

(* raw: the POIs that are near enough and not yet heard, sorted by distance *)
RawCandidates(pois, heardSet) ==
  LET keep == {p \in PoiIds : PoiInfo[p].dist <= MaxPickDistance /\ p \notin heardSet}
      dist == [p \in PoiIds |-> PoiInfo[p].dist]
  IN  StableSortByKey(SelectSeqIn(pois, keep), dist)

(* enriched.sort by score; enriched[0], or null when nothing passed the gate *)
BestOf(raw, upSet) ==
  LET top    == Prefix(raw, MaxEnriched)
      okSet  == {p \in Range(top) : EnrichedFacts(p, p \in upSet).ok}
      score  == [p \in PoiIds |-> EnrichedFacts(p, p \in upSet).score]
      sorted == StableSortByKey(SelectSeqIn(top, okSet), score)
  IN  IF sorted = <<>> THEN None ELSE sorted[1]

----------------------------------------------------------------------------
(* State of one request *)

(* Besides the locals of the handler a request carries what it has done   *)
(* so far: the generator's output, whether TTS was called, whether it      *)
(* marked its POI heard, whether its exposure record was written, whether  *)
(* one of its steps changed what a HeardSet read of its user yields,       *)
(* whether one of its database calls failed, what held when it started    *)
(* (the POIs whose TTS had failed for its user and the POIs that had been  *)
(* spoken to its user), the radii it has passed to getNearbyPois, in the   *)
(* order of the calls, the providers that failed when it last asked them,  *)
(* the number of facts and of hard anchors of its candidate, and the HTTP  *)
(* status the generator answered with when its call failed (0: the call    *)
(* did not fail, or failed without a status).                              *)
IdleReq ==
  [pc |-> "idle", user |-> "u1", ri |-> 1, pois |-> <<>>, rows |-> FailRows, raw |-> <<>>,
   best |-> None, dec |-> "none",
   genOut |-> "none", ttsCalled |-> FALSE, marked |-> FALSE, logged |-> FALSE,
   touched |-> FALSE, dbFailed |-> FALSE, failedBefore |-> {}, spokenBefore |-> {},
   asked |-> <<>>, failed |-> {}, facts |-> 0, anchors |-> 0, upstream |-> 0]

NoResp ==
  [status |-> 0, speak |-> FALSE, reason |-> "none", poi |-> None, user |-> "u1",
   genOut |-> "none", ttsCalled |-> FALSE, marked |-> FALSE, logged |-> FALSE,
   touched |-> FALSE, dbFailed |-> FALSE, retry |-> FALSE, spokenBefore |-> {},
   heardAtSend |-> {}, asked |-> <<>>, failed |-> {}, facts |-> 0, anchors |-> 0,
   upstream |-> 0, nth |-> 0]

Pairs == Users \X PoiIds

(* rows of user_place_history for one user *)
DbRows(u) == {p \in PoiIds : heardDb[<<u, p>>] > 0}

(* What a HeardSet read of user u yields: the in-memory set once one has   *)
(* been stored for the user, the durable rows before that.                 *)
HeardView(u) == IF heardMem[u].loaded THEN heardMem[u].set ELSE DbRows(u)

(* Rows a previous run of the service may have left in user_place_history. *)
InitialRowSets == {{}, {<<"u1", "osm:1">>}}

(* The TTL cache of utils.js: the keys, values and ttl arguments of the     *)
(* model (a ttl below zero is clamped by cacheSet).                        *)
TtlKeys == {"k1", "k2"}
TtlValues == {"v1", "v2"}
TtlChoices == {-1, 2}

(* _cache.get(key) === undefined *)
NoTtlEntry == [present |-> FALSE, value |-> None, expiresAt |-> 0]

(* no cacheSet yet under a key *)
NeverSet == [has |-> FALSE, value |-> None, at |-> 0, ttl |-> 0]

(* no cacheGet yet *)
NoGet ==
  [done |-> FALSE, key |-> "k1", result |-> None, latest |-> None, late |-> FALSE,
   expired |-> FALSE, evicted |-> FALSE]

(* A header of the request or req.ip: undefined, or a string *)
Absent == [given |-> FALSE, value |-> ""]
Given(v) == [given |-> TRUE, value |-> v]

(* `user:${id}` / `ip:${id}` / "anon" *)
UserKey(kind, id) == [kind |-> kind, id |-> id]

(* getUserKeyFromRequest not yet called *)
(* Taste values are counted in hundredths: 55 stands for 0.55.            *)
(* JavaScript values a field of a request body can hold                    *)
Undefined == [k |-> "undefined", n |-> 0, s |-> ""]
Null      == [k |-> "null", n |-> 0, s |-> ""]
Num(n)    == [k |-> "number", n |-> n, s |-> ""]
Str(s)    == [k |-> "string", n |-> 0, s |-> s]
Bool(b)   == [k |-> "boolean", n |-> BoolInt(b), s |-> ""]
Infinite  == [k |-> "infinity", n |-> 0, s |-> ""]

TasteFields == {"humor", "nerdy", "dramatic", "shorter"}

(* the fallbacks normalizeTasteInput passes to clamp01 *)
TasteDefault == [humor |-> 55, nerdy |-> 35, dramatic |-> 25, shorter |-> 20]

(* byId.has(id) is false *)
NoTaste == [has |-> FALSE, taste |-> TasteDefault]

NoTasteCall == [op |-> "none", raw |-> [f \in TasteFields |-> Undefined], result |-> TasteDefault,
                rounds |-> 0]

(* no candidate chosen yet *)
NoPick == [done |-> FALSE, input |-> <<>>, result |-> None]

(* the qid arguments of fetchWikidataFacts: a POI without one, two with one *)
Qids == {"", "Q1", "Q2"}

Languages == {"en", "he"}

(* const cacheKey = `${qid}|${language}` *)
cacheKey(qid, language) == qid \o "|" \o language

FactsKeys == {cacheKey(qid, language) : qid \in Qids \ {""}, language \in Languages}

(* { facts: [], sources: [], meta: {} } *)
EmptyFacts == [facts |-> <<>>, sources |-> <<>>, meta |-> {}]

(* wikidataFactsMemory.get(cacheKey) of a key never set *)
NoCached == [has |-> FALSE, value |-> EmptyFacts]

(* the knowledge graph has not been queried *)
NoLookup == [kind |-> "none", fields |-> {}]

NoFactsCall == [done |-> FALSE, qid |-> "", lang |-> "en", queried |-> FALSE, before |-> NoLookup,
                outcome |-> NoLookup, result |-> EmptyFacts]

(* no FACTS block built yet *)
NoBlock == [done |-> FALSE, facts |-> <<>>, lines |-> <<>>, clean |-> <<>>, numbered |-> <<>>]

NoUserKey ==
  [done |-> FALSE, headerId |-> Absent, ipHeader |-> Absent, ip |-> Absent,
   result |-> UserKey("anon", "")]

(* findBestPoi / generateStoryText not yet called *)
NoDecision == [done |-> FALSE, threw |-> FALSE, shouldSpeak |-> FALSE, reason |-> "none", facts |-> 0]
NoStory == [done |-> FALSE, threw |-> FALSE, text |-> "none", facts |-> 0, clean |-> 0]

(* State of one GET /places request: the locals of getNearbyPois and what  *)
(* the request has done so far: the providers it called, those that        *)
(* failed, the list each provider returned, whether its list came from a   *)
(* cache and how old that entry was, and the hour the request arrived.     *)
NoLists == [osm |-> <<>>, wd |-> <<>>, gp |-> <<>>]

IdleQuery ==
  [pc |-> "idle", key |-> HandlerKey(1), pois |-> <<>>, calls |-> {}, failed |-> {},
   got |-> NoLists, hit |-> FALSE, age |-> 0, at |-> 0]

(* nothing returned yet for a key *)
NoPrev == [has |-> FALSE, pois |-> <<>>, at |-> 0]

NoPlaces ==
  [status |-> 0, key |-> HandlerKey(1), pois |-> <<>>, calls |-> {}, failed |-> {},
   got |-> NoLists, hit |-> FALSE, age |-> 0, at |-> 0, before |-> NoPrev]

(* The reason of a response or of a result of generateBtwStory: a tag, and *)
(* for final_validation_failed_<sub> the tag of the rule that failed.      *)
RouteReason(tag) == [tag |-> tag, sub |-> "none"]
FinalValidationFailed(sub) == [tag |-> "final_validation_failed", sub |-> sub]

(* State of one request of src/routes.js: the candidate of the radius      *)
(* loop, the text of the story, and what generateBtwStory has done so far: *)
(* its calls of the generator, the first draft and the verdict of the      *)
(* validator on it, the repaired draft and its verdict.                    *)
IdleRoute ==
  [pc |-> "idle", best |-> None, text |-> "", calls |-> 0,
   first |-> "none", firstReason |-> "none", repaired |-> "none", repairReason |-> "none"]

NoRouteResp ==
  [status |-> 0, speak |-> FALSE, reason |-> RouteReason("none"), text |-> "", calls |-> 0,
   first |-> "none", firstReason |-> "none", repaired |-> "none", repairReason |-> "none",
   told |-> RouteReason("none"), ttsCalled |-> FALSE]

Init ==
  /\ loc \in Locations
  /\ pool \in BOOLEAN
  /\ heardMem = [u \in Users |-> NoSet]
  /\ \E rows \in InitialRowSets :
       /\ pool = FALSE => rows = {}
       /\ heardDb = [x \in Pairs |-> IF x \in rows THEN 1 ELSE 0]
       /\ spoken = [x \in Pairs |-> IF x \in rows THEN 1 ELSE 0]
  /\ cacheMem = [k \in CacheKeys |-> NoEntry]
  /\ cacheDb = [k \in CacheKeys |-> NoEntry]
  /\ storyLogs = <<>>
  /\ req = [s \in Slots |-> IdleReq]
  /\ sent = NoResp
  /\ started = 0
  /\ ttsFailed = {}
  /\ faults = 0
  /\ now = 0
  /\ memAt = [k \in CacheKeys |-> 0]
  /\ rowAt = [k \in CacheKeys |-> 0]
  /\ pq = IdleQuery
  /\ plast = NoPlaces
  /\ pprev = [k \in CacheKeys |-> NoPrev]
  /\ pcount = 0
  /\ ttlCache = [k \in TtlKeys |-> NoTtlEntry]
  /\ lastSet = [k \in TtlKeys |-> NeverSet]
  /\ tgot = NoGet
  /\ decision = NoDecision
  /\ story = NoStory
  /\ ukey = NoUserKey
  /\ block = NoBlock
  /\ pick = NoPick
  /\ byId = NoTaste
  /\ tcall = NoTasteCall
  /\ wikidataFactsMemory = [k \in FactsKeys |-> NoCached]
  /\ lastLookup = [k \in FactsKeys |-> NoLookup]
  /\ wfacts = NoFactsCall
  /\ rt = IdleRoute
  /\ rsent = NoRouteResp
  /\ rcount = 0

(* A step whose collaborators all answered (ok) is always possible; one    *)
(* that met a failure is possible while the fault budget lasts.            *)
Injected(ok) ==
  /\ ok \/ faults < MaxFaults
  /\ faults' = IF ok THEN faults ELSE faults + 1

----------------------------------------------------------------------------
(* Sending the response: res.json(...) / res.status(..).json(...).         *)

(* Respond as a handler that returns without writing to res *)
RespondNothing(s, rq, status, speak, reason, poi) ==
  /\ req' = [req EXCEPT ![s] = IdleReq]
  /\ UNCHANGED <<sent, spoken, ttsFailed>>

(* The slot is free again.  The response is recorded together with what a  *)
(* HeardSet read of the user yields as the step ends, and with the number  *)
(* of responses sent so far.                                               *)
Respond(s, rq, status, speak, reason, poi) ==
  /\ req' = [req EXCEPT ![s] = IdleReq]
  /\ sent' = [status |-> status, speak |-> speak, reason |-> reason, poi |-> poi,
              user |-> rq.user, genOut |-> rq.genOut, ttsCalled |-> rq.ttsCalled,
              marked |-> rq.marked, logged |-> rq.logged, touched |-> rq.touched,
              dbFailed |-> rq.dbFailed,
              retry |-> poi \in rq.failedBefore, spokenBefore |-> rq.spokenBefore,
              heardAtSend |-> IF heardMem'[rq.user].loaded THEN heardMem'[rq.user].set
                              ELSE DbRows(rq.user),
              asked |-> rq.asked, failed |-> rq.failed,
              facts |-> rq.facts, anchors |-> rq.anchors, upstream |-> rq.upstream,
              nth |-> sent.nth + 1]
  /\ spoken' = IF speak THEN [spoken EXCEPT ![<<rq.user, poi>>] = @ + 1] ELSE spoken
  /\ ttsFailed' = IF reason = "tts_failed" THEN ttsFailed \cup {<<rq.user, poi>>} ELSE ttsFailed

(* logStory(...): returns at once without a pool, otherwise awaits the     *)
(* INSERT into story_logs.                                                 *)
logStoryReturnsAtOnce == ~pool

(* The orchestrator has a decision: it appends the exposure record and     *)
(* then answers.  rq is the request after the step that decided.           *)
Decide(s, rq, speak, reason) ==
  IF logStoryReturnsAtOnce
  THEN /\ Respond(s, rq, 200, speak, reason, IF speak THEN rq.best ELSE None)
       /\ UNCHANGED storyLogs
  ELSE /\ req' = [req EXCEPT ![s] = [rq EXCEPT !.pc = "logIns", !.dec = reason]]
       /\ UNCHANGED <<storyLogs, sent, spoken, ttsFailed>>

(* Node switches between requests only when a handler waits for IO, so a   *)
(* step of a request runs from the completion of one IO call to the start  *)
(* of the next.  The three operators below follow the radius loop of the   *)
(* handler from a given point to the next IO call; each yields the request *)
(* as it waits (pc names the awaited call, "none" = the loop ended with    *)
(* best = null) and the history map as the walk leaves it.                 *)
RECURSIVE LoopFrom(_, _, _)
RECURSIVE PickWith(_, _)
RECURSIVE AfterHeard(_, _)

(* NextRadius that leaves out every other entry of radii *)
NextRadiusSkips(i) == i + 2

(* for (const r of radii): the index of the entry after the i-th           *)
NextRadius(i) == i + 1

(* some lookup of the enrichment loop goes to the network *)
EnrichNeedsIO(raw) ==
  \E p \in Range(Prefix(raw, MaxEnriched)) : PoiInfo[p].qid \/ PoiInfo[p].wikiTag

(* pickBestPoiForUser once the user's Set is in hand: filter and sort; the *)
(* enrichment loop waits for its lookups, or finds nothing to look up and  *)
(* returns null.                                                           *)
AfterHeard(rq, hm) ==
  LET raw == RawCandidates(rq.pois, hm[rq.user].set) IN
  IF EnrichNeedsIO(raw)
  THEN [rq |-> [rq EXCEPT !.pc = "enrich", !.raw = raw], hm |-> hm]
  ELSE LoopFrom(rq, NextRadius(rq.ri), hm)

(* pickBestPoiForUser(rq.pois, ...) from its entry: an empty list gives    *)
(* null; getHeardSetForUser returns the Set in the map, or stores an empty *)
(* one when there is no pool, or waits for its SELECT.                     *)
PickWith(rq, hm) ==
  LET u == rq.user IN
  IF rq.pois = <<>> THEN LoopFrom(rq, NextRadius(rq.ri), hm)
  ELSE IF hm[u].loaded THEN AfterHeard(rq, hm)
  ELSE IF pool THEN [rq |-> [rq EXCEPT !.pc = "hsSel"], hm |-> hm]
  ELSE AfterHeard(rq, [hm EXCEPT ![u] = SetOf({})])

(* for (const r of radii) { pois = await getNearbyPois(..., r, ...);       *)
(* best = await pickBestPoiForUser(pois, ...); if (best) break; } from the *)
(* i-th radius on.  getNearbyPois returns the memory entry when there is   *)
(* one, otherwise it waits for the database or for the providers.          *)
LoopFrom(rq, i, hm) ==
  LET clean == [rq EXCEPT !.pois = <<>>, !.raw = <<>>, !.rows = FailRows]
      call  == [clean EXCEPT !.ri = i, !.asked = Append(@, Radii[i])] IN
  IF i > Len(Radii) THEN [rq |-> [clean EXCEPT !.pc = "none"], hm |-> hm]
  ELSE IF cacheMem[HandlerKey(i)].present
  THEN PickWith([call EXCEPT !.pois = cacheMem[HandlerKey(i)].pois], hm)
  ELSE [rq |-> [call EXCEPT !.pc = IF pool THEN "cacheSel" ELSE "fetch"], hm |-> hm]

(* The step ends where the walk w stopped; a loop that ended without a     *)
(* candidate is the decision no_strong_poi.                                *)
Proceed(s, w) ==
  /\ heardMem' = w.hm
  /\ IF w.rq.pc = "none"
     THEN Decide(s, w.rq, FALSE, "no_strong_poi")
     ELSE /\ req' = [req EXCEPT ![s] = w.rq]
          /\ UNCHANGED <<storyLogs, sent, spoken, ttsFailed>>

----------------------------------------------------------------------------
(* POST /api/story-both *)

(* Entry of the handler: the checks of the body, then the radius loop up   *)
(* to its first IO call.                                                   *)
Start(s) ==
  /\ req[s].pc = "idle"
  /\ started < MaxRequests
  /\ started' = started + 1
  /\ UNCHANGED <<graphVars, tasteVars, routeVars, serviceVars, utilVars, placesVars, loc, pool, heardDb, cacheMem, cacheDb, faults>>
  /\ \E u \in Users, hasPrompt \in BOOLEAN, hasLocation \in BOOLEAN :
       LET rq == [IdleReq EXCEPT !.user = u,
                                 !.failedBefore = {p \in PoiIds : <<u, p>> \in ttsFailed},
                                 !.spokenBefore = {p \in PoiIds : spoken[<<u, p>>] > 0}] IN
       IF ~hasPrompt
       THEN /\ UNCHANGED <<heardMem, storyLogs>>
            /\ Respond(s, rq, 400, FALSE, "missing_prompt", None)
       ELSE IF ~hasLocation
       THEN /\ UNCHANGED <<heardMem, storyLogs>>
            /\ Respond(s, rq, 200, FALSE, "location_missing", None)
       ELSE Proceed(s, LoopFrom(rq, 1, heardMem))

(* SELECT places_json FROM places_cache has settled: a row fills the       *)
(* memory cache and is returned; no row or a database error falls through  *)
(* to the providers.                                                       *)
CacheSelect(s) ==
  LET rq == req[s] IN
  /\ rq.pc = "cacheSel"
  /\ \E dbOk \in BOOLEAN :
       /\ Injected(dbOk)
       /\ IF dbOk /\ cacheDb[HandlerKey(rq.ri)].present
          THEN /\ cacheMem' = [cacheMem EXCEPT ![HandlerKey(rq.ri)] = cacheDb[HandlerKey(rq.ri)]]
               /\ Proceed(s, PickWith([rq EXCEPT !.pois = cacheDb[HandlerKey(rq.ri)].pois], heardMem))
          ELSE /\ req' = [req EXCEPT ![s] = [rq EXCEPT !.pc = "fetch", !.dbFailed = @ \/ ~dbOk]]
               /\ UNCHANGED <<cacheMem, heardMem, storyLogs, sent, spoken, ttsFailed>>
  /\ UNCHANGED <<graphVars, tasteVars, routeVars, serviceVars, utilVars, placesVars, loc, pool, heardDb, cacheDb, started>>

(* the providers whose promise was rejected *)
FailedOf(osm, wd, gp) ==
  {a \in {"osm", "wd", "gp"} :
     \/ a = "osm" /\ ~osm.ok
     \/ a = "wd" /\ ~wd.ok
     \/ a = "gp" /\ ~gp.ok}

(* The providers have answered: merge, de-dupe, store in the memory cache, *)
(* then write the database row (with a pool) or return the list.           *)
Fetch(s) ==
  LET rq == req[s]
      radius == Radii[rq.ri] IN
  /\ rq.pc = "fetch"
  /\ \E osm \in AdapterOutcomes(OsmList(radius)),
        wd \in AdapterOutcomes(WdList(radius)),
        gp \in AdapterOutcomes(GpList(radius)) :
       LET deduped == Dedupe(MergeInteresting(osm, wd, gp))
           rq2     == [rq EXCEPT !.pois = deduped, !.failed = FailedOf(osm, wd, gp)] IN
       /\ GoogleCalled(osm, wd) \/ gp.ok
       /\ Injected(osm.ok /\ wd.ok /\ gp.ok)
       /\ cacheMem' = [cacheMem EXCEPT ![HandlerKey(rq.ri)] = EntryOf(deduped)]
       /\ IF pool
          THEN /\ req' = [req EXCEPT ![s] = [rq2 EXCEPT !.pc = "cacheUps"]]
               /\ UNCHANGED <<heardMem, storyLogs, sent, spoken, ttsFailed>>
          ELSE Proceed(s, PickWith(rq2, heardMem))
  /\ UNCHANGED <<graphVars, tasteVars, routeVars, serviceVars, utilVars, placesVars, loc, pool, heardDb, cacheDb, started>>

(* INSERT INTO places_cache ... ON CONFLICT DO UPDATE has settled (an      *)
(* error is logged); getNearbyPois returns the list.                       *)
CacheUpsert(s) ==
  LET rq == req[s] IN
  /\ rq.pc = "cacheUps"
  /\ \E dbOk \in BOOLEAN :
       /\ Injected(dbOk)
       /\ cacheDb' = IF dbOk THEN [cacheDb EXCEPT ![HandlerKey(rq.ri)] = EntryOf(rq.pois)] ELSE cacheDb
       /\ Proceed(s, PickWith([rq EXCEPT !.dbFailed = @ \/ ~dbOk], heardMem))
  /\ UNCHANGED <<graphVars, tasteVars, routeVars, serviceVars, utilVars, placesVars, loc, pool, heardDb, cacheMem, started>>

(* The database executes SELECT place_id FROM user_place_history WHERE     *)
(* user_key = $1, or the query fails.  The result travels back to the      *)
(* server; the handler resumes in HeardResume.                             *)
HeardSelect(s) ==
  LET rq == req[s] IN
  /\ rq.pc = "hsSel"
  /\ \E dbOk \in BOOLEAN :
       /\ Injected(dbOk)
       /\ req' = [req EXCEPT ![s] = [rq EXCEPT !.pc = "hsRes", !.dbFailed = @ \/ ~dbOk,
                                                !.rows = IF dbOk THEN OkRows(DbRows(rq.user)) ELSE FailRows]]
  /\ UNCHANGED <<graphVars, tasteVars, routeVars, serviceVars, utilVars, placesVars, loc, pool, heardMem, heardDb, cacheMem, cacheDb, storyLogs, sent, started, spoken, ttsFailed>>

(* The set getHeardSetForUser builds from the result of its query.         *)
LoadedSet(rows) == IF rows.ok THEN rows.set ELSE {}

(* getHeardSetForUser resumes: the rows (none after an error) become a new *)
(* Set, which is stored in the map and returned; pickBestPoiForUser goes   *)
(* on with it.                                                             *)
HeardResume(s) ==
  LET rq  == req[s]
      u   == rq.user
      set == LoadedSet(rq.rows)
      rq2 == [rq EXCEPT !.rows = FailRows, !.touched = @ \/ (set # HeardView(u))] IN
  /\ rq.pc = "hsRes"
  /\ Proceed(s, AfterHeard(rq2, [heardMem EXCEPT ![u] = SetOf(set)]))
  /\ UNCHANGED <<graphVars, tasteVars, routeVars, serviceVars, utilVars, placesVars, loc, pool, heardDb, cacheMem, cacheDb, started, faults>>

(* The lookups of the enrichment loop have settled: those of the POIs in   *)
(* upSet answered, the others failed.  best is the first of the gated      *)
(* candidates by score; without one the radius loop goes on.               *)
Enrich(s) ==
  LET rq == req[s] IN
  /\ rq.pc = "enrich"
  /\ \E upSet \in SUBSET Range(rq.raw) :
     \E best \in {BestOf(rq.raw, upSet)} :
       /\ Injected(upSet = Range(rq.raw))
       /\ IF best # None
          THEN \E e \in {EnrichedFacts(best, best \in upSet)} :
               /\ req' = [req EXCEPT ![s] =
                          [rq EXCEPT !.pc = "gen", !.best = best, !.pois = <<>>, !.raw = <<>>,
                                     !.facts = e.facts, !.anchors = e.anchors]]
               /\ UNCHANGED <<heardMem, storyLogs, sent, spoken, ttsFailed>>
          ELSE Proceed(s, LoopFrom(rq, NextRadius(rq.ri), heardMem))
  /\ UNCHANGED <<graphVars, tasteVars, routeVars, serviceVars, utilVars, placesVars, loc, pool, heardDb, cacheMem, cacheDb, started>>

(* CatchBlock as a handler that reports the error in a 200 body *)
CatchBlockSilent(s, rq, reason) ==
  /\ Respond(s, rq, 200, FALSE, reason, rq.best)
  /\ UNCHANGED storyLogs

(* catch (err) { ...; res.status(500).json({ error: ... }) }: the handler   *)
(* answers 500 whatever was thrown between its try and its last line.      *)
CatchBlock(s, rq, reason) ==
  /\ Respond(s, rq, 500, FALSE, reason, rq.best)
  /\ UNCHANGED storyLogs

(* What openai.chat.completions.create yields: a rejection, an empty       *)
(* content, the literal NO_STORY, a story of the length the prompt asks   *)
(* for, or a story that is shorter than that.                              *)
GenOutcomes == {"fail", "empty", "NO_STORY", "story", "short"}

(* the number of words of each text of the model *)
WordCount(out) ==
  CASE out = "story"    -> 150
    [] out = "short"    -> 90
    [] out = "NO_STORY" -> 1
    [] OTHER            -> 0

(* IsNoStory comparing with the wrong literal *)
IsNoStoryLowerCase(out) == out = "no_story"

(* storyText === "NO_STORY" *)
IsNoStory(out) == out = "NO_STORY"

(* The status of the error a rejected call carries: err.status of the SDK  *)
(* for a non-2xx answer (503 here), none for a connection error.           *)
UpstreamStatuses == {0, 503}

(* openai.chat.completions.create has settled.                             *)
Generate(s) ==
  LET rq == req[s] IN
  /\ rq.pc = "gen"
  /\ UNCHANGED <<graphVars, tasteVars, routeVars, serviceVars, utilVars, placesVars, loc, pool, heardMem, heardDb, cacheMem, cacheDb, started>>
  /\ \E out \in GenOutcomes, up \in UpstreamStatuses :
       LET rq2 == [rq EXCEPT !.genOut = out, !.upstream = up] IN
       /\ out # "fail" => up = 0
       /\ Injected(out \notin {"fail", "empty"})
       /\ CASE out \in {"fail", "empty"} -> CatchBlock(s, rq2, "generator_failed")
            [] IsNoStory(out) -> Decide(s, rq2, FALSE, "model_no_story")
            [] OTHER ->
                 /\ req' = [req EXCEPT ![s] = [rq2 EXCEPT !.pc = "tts"]]
                 /\ UNCHANGED <<storyLogs, sent, spoken, ttsFailed>>

(* SetAdd that loses the element *)
SetAddDropped(set, x) == set

(* Set.prototype.add *)
SetAdd(set, x) == set \cup {x}

(* InsertHistoryRow without its ON CONFLICT clause and without the         *)
(* primary key that backs it: every call adds a row.                       *)
InsertHistoryRowNoConflict(table, u, p) == [table EXCEPT ![<<u, p>>] = @ + 1]

(* INSERT INTO user_place_history (user_key, place_id) VALUES ($1, $2)     *)
(* ON CONFLICT (user_key, place_id) DO NOTHING                             *)
InsertHistoryRow(table, u, p) ==
  IF table[<<u, p>>] > 0 THEN table ELSE [table EXCEPT ![<<u, p>>] = 1]

(* ttsWithOpenAI has settled.  On success markPlaceHeardForUser runs up to *)
(* its INSERT: getHeardSetForUser finds the user's set in memory (          *)
(* pickBestPoiForUser stored one before it returned a candidate) and the   *)
(* place is added to it.  Without a pool the mark is complete.             *)
TtsDone(s) ==
  LET rq == req[s]
      u  == rq.user IN
  /\ rq.pc = "tts"
  /\ \E ttsOk \in BOOLEAN :
       LET rq2 == [rq EXCEPT !.ttsCalled = TRUE] IN
       /\ Injected(ttsOk)
       /\ IF ~ttsOk
          THEN /\ UNCHANGED heardMem
               /\ CatchBlock(s, rq2, "tts_failed")
          ELSE LET set == SetAdd(heardMem[u].set, rq.best)
                   rq3 == [rq2 EXCEPT !.marked = TRUE,
                                      !.touched = @ \/ (set # HeardView(u))] IN
               /\ heardMem[u].loaded
               /\ heardMem' = [heardMem EXCEPT ![u] = SetOf(set)]
               /\ IF pool
                  THEN /\ req' = [req EXCEPT ![s] = [rq3 EXCEPT !.pc = "markIns"]]
                       /\ UNCHANGED <<storyLogs, sent, spoken, ttsFailed>>
                  ELSE Decide(s, rq3, TRUE, "ok")
  /\ UNCHANGED <<graphVars, tasteVars, routeVars, serviceVars, utilVars, placesVars, loc, pool, heardDb, cacheMem, cacheDb, started>>

(* The INSERT of markPlaceHeardForUser has settled; an error is logged.    *)
MarkInsert(s) ==
  LET rq == req[s]
      u  == rq.user IN
  /\ rq.pc = "markIns"
  /\ UNCHANGED <<graphVars, tasteVars, routeVars, serviceVars, utilVars, placesVars, loc, pool, heardMem, cacheMem, cacheDb, started>>
  /\ \E dbOk \in BOOLEAN :
       LET table == IF dbOk THEN InsertHistoryRow(heardDb, u, rq.best) ELSE heardDb IN
       /\ Injected(dbOk)
       /\ heardDb' = table
       /\ Decide(s, [rq EXCEPT !.touched = @ \/ (table # heardDb), !.dbFailed = @ \/ ~dbOk],
                 TRUE, "ok")

(* The INSERT of logStory has settled; the caller logs an error and goes   *)
(* on to send the decision.                                                *)
LogInsert(s) ==
  LET rq    == req[s]
      speak == rq.dec = "ok"
      poi   == IF speak THEN rq.best ELSE None IN
  /\ rq.pc = "logIns"
  /\ UNCHANGED <<graphVars, tasteVars, routeVars, serviceVars, utilVars, placesVars, loc, pool, heardMem, heardDb, cacheMem, cacheDb, started>>
  /\ \E dbOk \in BOOLEAN :
       /\ Injected(dbOk)
       /\ storyLogs' = IF dbOk
                       THEN Append(storyLogs, [user |-> rq.user, poi |-> rq.best,
                                               speak |-> speak, reason |-> rq.dec])
                       ELSE storyLogs
       /\ Respond(s, [rq EXCEPT !.logged = dbOk, !.dbFailed = @ \/ ~dbOk], 200, speak, rq.dec, poi)

----------------------------------------------------------------------------

(* The external calls a request is waiting for at each of its awaits *)
CallsAwaited(pc) ==
  CASE pc = "fetch"  -> {"osm", "wikidata", "google"}
    [] pc = "enrich" -> {"facts"}
    [] pc = "gen"    -> {"generator"}
    [] pc = "tts"    -> {"tts"}
    [] OTHER         -> {}

(* The timeout, in milliseconds, each external call is made with: the      *)
(* third argument of abortableFetch for the providers and the fact         *)
(* lookups; openai.chat.completions.create and openai.audio.speech.create  *)
(* are called without one (0).                                             *)
CallTimeoutMs(call) ==
  CASE call = "google"   -> 9000
    [] call = "osm"      -> 12000
    [] call = "wikidata" -> 12000
    [] call = "facts"    -> 9000
    [] OTHER             -> 0

Next ==
  \E s \in Slots :
    \/ Start(s)
    \/ CacheSelect(s)
    \/ Fetch(s)
    \/ CacheUpsert(s)
    \/ HeardSelect(s)
    \/ HeardResume(s)
    \/ Enrich(s)
    \/ Generate(s)
    \/ TtsDone(s)
    \/ MarkInsert(s)
    \/ LogInsert(s)

Spec == Init /\ [][Next]_vars

(* The steps of the request in slot s after its entry: each is the         *)
(* completion of the IO call the handler awaits.                           *)
Resume(s) ==
  \/ CacheSelect(s)
  \/ Fetch(s)
  \/ CacheUpsert(s)
  \/ HeardSelect(s)
  \/ HeardResume(s)
  \/ Enrich(s)
  \/ Generate(s)
  \/ TtsDone(s)
  \/ MarkInsert(s)
  \/ LogInsert(s)

(* A client that sends its requests one after the other: each request is  *)
(* handled in the same slot.                                               *)
SerialSlot == "s1"

NextSerial ==
  \/ Start(SerialSlot)
  \/ CacheSelect(SerialSlot)
  \/ Fetch(SerialSlot)
  \/ CacheUpsert(SerialSlot)
  \/ HeardSelect(SerialSlot)
  \/ HeardResume(SerialSlot)
  \/ Enrich(SerialSlot)
  \/ Generate(SerialSlot)
  \/ TtsDone(SerialSlot)
  \/ MarkInsert(SerialSlot)
  \/ LogInsert(SerialSlot)

(* Runs of such a client *)
SpecSerial == Init /\ [][NextSerial]_vars

(* Runs of such a client in which every awaited call settles, with a       *)
(* result or an error, and Node then resumes the handler.                  *)
FairSerial == SpecSerial /\ WF_vars(Resume(SerialSlot))

TypeOK ==
  /\ pool \in BOOLEAN
  /\ started \in 0..MaxRequests
  /\ \A u \in Users : heardMem[u].set \subseteq PoiIds
  /\ \A x \in Pairs : heardDb[x] \in Nat /\ spoken[x] \in Nat
  /\ \A s \in Slots : req[s].user \in Users /\ req[s].ri \in DOMAIN Radii

----------------------------------------------------------------------------
(* GET /places *)

(* res.json({ pois }) / res.status(..).json({ error }): the response is    *)
(* recorded with what the request did and with the list the previous       *)
(* request for the same key was given.                                     *)
PlacesRespond(q, status, pois) ==
  /\ pq' = IdleQuery
  /\ plast' = [status |-> status, key |-> q.key, pois |-> pois, calls |-> q.calls,
               failed |-> q.failed, got |-> q.got, hit |-> q.hit, age |-> q.age,
               at |-> q.at, before |-> pprev[q.key]]
  /\ pprev' = IF status = 200
              THEN [pprev EXCEPT ![q.key] = [has |-> TRUE, pois |-> pois, at |-> q.at]]
              ELSE pprev

(* Entry of the route and of getNearbyPois: the memory entry of the key is *)
(* returned when there is one (an empty list included), otherwise the      *)
(* function waits for the database or for the providers.                   *)
PlacesStart ==
  /\ pq.pc = "idle"
  /\ pcount < MaxQueries
  /\ pcount' = pcount + 1
  /\ UNCHANGED <<graphVars, tasteVars, routeVars, serviceVars, utilVars, handlerVars, loc, pool, cacheMem, cacheDb, faults, now, memAt, rowAt>>
  /\ \E hasCoords \in BOOLEAN, i \in DOMAIN Radii, m \in Modes :
       LET key == makeCacheKey(i, m)
           q   == [IdleQuery EXCEPT !.key = key, !.at = now] IN
       IF ~hasCoords
       THEN PlacesRespond([IdleQuery EXCEPT !.at = now], 400, <<>>)
       ELSE IF cacheMem[key].present
       THEN PlacesRespond([q EXCEPT !.hit = TRUE, !.age = now - memAt[key]],
                          200, cacheMem[key].pois)
       ELSE /\ pq' = [q EXCEPT !.pc = IF pool THEN "sel" ELSE "fetch"]
            /\ UNCHANGED <<plast, pprev>>

(* SELECT places_json FROM places_cache WHERE cache_key = $1 has settled.  *)
PlacesSelect ==
  LET key == pq.key IN
  /\ pq.pc = "sel"
  /\ \E dbOk \in BOOLEAN :
       /\ Injected(dbOk)
       /\ IF dbOk /\ cacheDb[key].present
          THEN /\ cacheMem' = [cacheMem EXCEPT ![key] = cacheDb[key]]
               /\ memAt' = [memAt EXCEPT ![key] = rowAt[key]]
               /\ PlacesRespond([pq EXCEPT !.hit = TRUE, !.age = now - rowAt[key]],
                                200, cacheDb[key].pois)
          ELSE /\ pq' = [pq EXCEPT !.pc = "fetch"]
               /\ UNCHANGED <<cacheMem, memAt, plast, pprev>>
  /\ UNCHANGED <<graphVars, tasteVars, routeVars, serviceVars, utilVars, handlerVars, loc, pool, cacheDb, now, rowAt, pcount>>

(* placesCacheMemory.set(key, deduped), then the upsert (with a pool) or   *)
(* the return.                                                             *)
PlacesStored(q) ==
  /\ cacheMem' = [cacheMem EXCEPT ![q.key] = EntryOf(q.pois)]
  /\ memAt' = [memAt EXCEPT ![q.key] = now]
  /\ IF pool
     THEN /\ pq' = [q EXCEPT !.pc = "ups"]
          /\ UNCHANGED <<plast, pprev>>
     ELSE PlacesRespond(q, 200, q.pois)

(* The providers have answered.  In mode "interesting" as in Fetch; in any *)
(* other mode Google alone is called, outside any try, so its failure      *)
(* leaves getNearbyPois as an exception and reaches the catch of the route.*)
PlacesFetch ==
  LET radius == Radii[pq.key[2]]
      mode   == pq.key[1] IN
  /\ pq.pc = "fetch"
  /\ \E osm \in AdapterOutcomes(OsmList(radius)),
        wd \in AdapterOutcomes(WdList(radius)),
        gp \in AdapterOutcomes(GpList(radius)) :
       IF mode = "interesting"
       THEN LET called == GoogleCalled(osm, wd)
                q == [pq EXCEPT !.calls = {"osm", "wd"} \cup (IF called THEN {"gp"} ELSE {}),
                                !.failed = FailedOf(osm, wd, gp),
                                !.got = [osm |-> osm.pois, wd |-> wd.pois,
                                         gp |-> IF called THEN gp.pois ELSE <<>>],
                                !.pois = Dedupe(MergeInteresting(osm, wd, gp))] IN
            /\ called \/ gp.ok
            /\ Injected(osm.ok /\ wd.ok /\ gp.ok)
            /\ PlacesStored(q)
       ELSE LET q == [pq EXCEPT !.calls = {"gp"},
                                !.failed = FailedOf(Ok(<<>>), Ok(<<>>), gp),
                                !.got = [NoLists EXCEPT !.gp = gp.pois],
                                !.pois = Dedupe(gp.pois)] IN
            /\ osm.ok /\ wd.ok
            /\ Injected(gp.ok)
            /\ IF gp.ok
               THEN PlacesStored(q)
               ELSE /\ PlacesRespond(q, 500, <<>>)
                    /\ UNCHANGED <<cacheMem, memAt>>
  /\ UNCHANGED <<graphVars, tasteVars, routeVars, serviceVars, utilVars, handlerVars, loc, pool, cacheDb, now, rowAt, pcount>>

(* INSERT INTO places_cache ... ON CONFLICT (cache_key) DO UPDATE has      *)
(* settled (an error is logged); getNearbyPois returns the list.           *)
PlacesUpsert ==
  /\ pq.pc = "ups"
  /\ \E dbOk \in BOOLEAN :
       /\ Injected(dbOk)
       /\ cacheDb' = IF dbOk THEN [cacheDb EXCEPT ![pq.key] = EntryOf(pq.pois)] ELSE cacheDb
       /\ rowAt' = IF dbOk THEN [rowAt EXCEPT ![pq.key] = now] ELSE rowAt
  /\ PlacesRespond(pq, 200, pq.pois)
  /\ UNCHANGED <<graphVars, tasteVars, routeVars, serviceVars, utilVars, handlerVars, loc, pool, cacheMem, now, memAt, pcount>>

(* An hour passes.  A request is over within the hour in which it arrived, *)
(* and the clock is followed while requests are still to come.             *)
Tick ==
  /\ pq.pc = "idle"
  /\ pcount < MaxQueries
  /\ now < MaxClock
  /\ now' = now + 1
  /\ UNCHANGED <<graphVars, tasteVars, routeVars, serviceVars, utilVars, handlerVars, loc, pool, cacheMem, cacheDb, faults, memAt, rowAt, pq, plast, pprev, pcount>>

NextPlaces ==
  \/ PlacesStart
  \/ PlacesSelect
  \/ PlacesFetch
  \/ PlacesUpsert
  \/ Tick

(* Runs in which the clients call GET /places only, one request at a time  *)
SpecPlaces == Init /\ [][NextPlaces]_vars

----------------------------------------------------------------------------
(* The TTL cache of utils.js *)

(* cacheGet that never looks at expiresAt *)
cacheGetNoExpiry(cache, key, t) ==
  [cache |-> cache, result |-> IF cache[key].present THEN cache[key].value ELSE None]

(* cacheGet(key) at time t: null without an entry; an entry whose          *)
(* expiresAt lies before t is deleted and null returned; otherwise the     *)
(* value.  Yields the result and the map as the call leaves it.            *)
cacheGet(cache, key, t) ==
  LET v == cache[key] IN
  IF ~v.present THEN [cache |-> cache, result |-> None]
  ELSE IF t > v.expiresAt
  THEN [cache |-> [cache EXCEPT ![key] = NoTtlEntry], result |-> None]
  ELSE [cache |-> cache, result |-> v.value]

(* cacheSet(key, value, ttlMs) at time t *)
cacheSet(cache, key, value, ttlMs, t) ==
  [cache EXCEPT ![key] = [present |-> TRUE, value |-> value, expiresAt |-> t + Max(0, ttlMs)]]

(* some caller stores a value *)
CacheSetCall ==
  /\ \E k \in TtlKeys, v \in TtlValues, ttl \in TtlChoices :
       /\ ttlCache' = cacheSet(ttlCache, k, v, ttl, now)
       /\ lastSet' = [lastSet EXCEPT ![k] = [has |-> TRUE, value |-> v, at |-> now, ttl |-> ttl]]
  /\ UNCHANGED <<graphVars, tasteVars, routeVars, serviceVars, handlerVars, placesVars, sharedVars, tgot>>

(* Some caller reads a key.  The read is recorded with the value of the    *)
(* latest cacheSet under the key (None before the first), whether the time *)
(* given with that cacheSet had passed (late), whether                     *)
(* the read met an entry whose time had passed (expired), and whether it   *)
(* took the entry out of the map (evicted).                                *)
CacheGetCall ==
  /\ \E k \in TtlKeys :
       LET r == cacheGet(ttlCache, k, now)
           l == lastSet[k]
           late == l.has /\ now > l.at + (IF l.ttl > 0 THEN l.ttl ELSE 0) IN
       /\ ttlCache' = r.cache
       /\ tgot' = [done |-> TRUE, key |-> k, result |-> r.result, latest |-> l.value,
                   late |-> late,
                   expired |-> ttlCache[k].present /\ late,
                   evicted |-> ttlCache[k].present /\ ~r.cache[k].present]
  /\ UNCHANGED <<graphVars, tasteVars, routeVars, serviceVars, handlerVars, placesVars, sharedVars, lastSet>>

NextCache ==
  \/ CacheSetCall
  \/ CacheGetCall
  \/ Tick

(* the routes are not called *)
InitCache == Init /\ loc = "town" /\ pool = FALSE

(* Runs in which the cache of utils.js is written and read as time passes  *)
SpecCache == InitCache /\ [][NextCache]_vars

----------------------------------------------------------------------------
(* findBestPoi of poiService.js and generateStoryText of storyService.js   *)
(* (the latest revision of each).  Facts are counted, not spelled out; the *)
(* facts a POI collects from its sources are distinct.                     *)

(* placeFacts: distance, vicinity, rating, types *)
MaxPlaceFacts == 4

(* uniqFacts(..., 12) in findBestPoi and enrichWithNearbyWikiFacts *)
MaxPoiFacts == 12

(* cleanFacts(poi, 10) *)
MaxCleanFacts == 10

(* facts.slice(0, 9) of the handler that numbers its facts *)
MaxNumberedFacts == 9

(* lines.length >= 14 of buildFactsTextForModel *)
MaxBlockLines == 14

(* longest fact list of the model *)
MaxFactLines == 3

(* longest list of candidates of the model *)
MaxCandidates == 3

(* largest number of fields a taste given by a client holds *)
MaxTasteFields == 1

(* largest number of feedbacks in a row on one taste *)
MaxFeedbacks == 2

(* if (facts.length < 2) return fallbackStory(...) *)
MinStoryFacts == 2

(* uniqFacts(list, max) for a list of n distinct facts *)
uniqFacts(n, max) == Min(n, max)

(* enrichWithNearbyWikiFacts / the street person lookup: nothing found     *)
(* leaves the facts as they are                                            *)
AddFacts(existing, found) == IF found = 0 THEN existing ELSE uniqFacts(existing + found, MaxPoiFacts)

(* findBestPoi({ lat, lng, userId, lang }): invalid coordinates throw; the *)
(* best of the places found (if any) or else the anchor of the location    *)
(* becomes the POI, with the facts of the place (none for the anchor) and  *)
(* those found around it.                                                  *)
findBestPoi(validCoords, places, placeFacts, wikiFacts, personFacts) ==
  IF ~validCoords THEN [NoDecision EXCEPT !.done = TRUE, !.threw = TRUE]
  ELSE LET own   == IF places > 0 THEN placeFacts ELSE 0
           facts == AddFacts(AddFacts(own, wikiFacts), personFacts) IN
       [done |-> TRUE, threw |-> FALSE, shouldSpeak |-> TRUE,
        reason |-> IF places > 0 THEN "poi_google_places" ELSE "fallback_anchor",
        facts |-> facts]

(* cleanFacts(poi, max): the facts that are not sensitive, at most max     *)
cleanFacts(facts, sensitive, max) == Min(facts - sensitive, max)

(* generateStoryText({ poi, taste, lang }): with fewer than 2 clean facts  *)
(* the text of fallbackStory; otherwise the text of the model, and an      *)
(* error when the call fails or the text is empty.                         *)
generateStoryText(facts, sensitive, out) ==
  LET clean == cleanFacts(facts, sensitive, MaxCleanFacts) IN
  IF clean < MinStoryFacts
  THEN [done |-> TRUE, threw |-> FALSE, text |-> "fallback", facts |-> facts, clean |-> clean]
  ELSE IF out = "story"
  THEN [done |-> TRUE, threw |-> FALSE, text |-> "story", facts |-> facts, clean |-> clean]
  ELSE [done |-> TRUE, threw |-> TRUE, text |-> "none", facts |-> facts, clean |-> clean]

(* the values of x-user-id, of x-forwarded-for and of req.ip in the model  *)
UserIdHeaders == {Absent, Given(""), Given(" "), Given("u7"), Given(" u7 "), Given("u8")}
ForwardedHeaders ==
  {Absent, Given(""), Given(" "), Given("1.2.3.4"), Given("1.2.3.4, 10.0.0.1"), Given(" ,10.0.0.1")}
RequestIps == {Absent, Given(""), Given("9.9.9.9")}

(* ipHeader.split(",")[0] on the header values of the model *)
SplitFirst(str) ==
  CASE str = "1.2.3.4, 10.0.0.1" -> "1.2.3.4"
    [] str = " ,10.0.0.1"        -> " "
    [] OTHER -> str

(* getUserKeyFromRequest that looks at the forwarded address first *)
getUserKeyForwardedFirst(headerId, ipHeader, ip) ==
  IF ipHeader.given /\ Trim(ipHeader.value) # ""
  THEN UserKey("ip", Trim(SplitFirst(ipHeader.value)))
  ELSE IF headerId.given /\ Trim(headerId.value) # ""
  THEN UserKey("user", Trim(headerId.value))
  ELSE IF ip.given /\ ip.value # "" THEN UserKey("ip", ip.value)
  ELSE UserKey("anon", "")

(* getUserKeyFromRequest(req) for req.headers["x-user-id"],                *)
(* req.headers["x-forwarded-for"] and req.ip                               *)
getUserKeyFromRequest(headerId, ipHeader, ip) ==
  IF headerId.given /\ Trim(headerId.value) # ""
  THEN UserKey("user", Trim(headerId.value))
  ELSE IF ipHeader.given /\ Trim(ipHeader.value) # ""
  THEN UserKey("ip", Trim(SplitFirst(ipHeader.value)))
  ELSE IF ip.given /\ ip.value # "" THEN UserKey("ip", ip.value)
  ELSE UserKey("anon", "")

(* some handler resolves the user key of its request *)
UserKeyCall ==
  /\ \E headerId \in UserIdHeaders, ipHeader \in ForwardedHeaders, ip \in RequestIps :
       ukey' = [done |-> TRUE, headerId |-> headerId, ipHeader |-> ipHeader, ip |-> ip,
                result |-> getUserKeyFromRequest(headerId, ipHeader, ip)]
  /\ UNCHANGED <<graphVars, tasteVars, routeVars, handlerVars, placesVars, sharedVars, utilVars, decision, story, block, pick>>

(* tasteService.js ------------------------------------------------------ *)

(* typeof v === "number" ? v : Number(v), in hundredths: finite or not     *)
(* (NaN, Infinity), and the number when finite.  Number(null) and          *)
(* Number("") are 0, Number(true) is 1, Number(undefined) and              *)
(* Number("abc") are NaN.                                                  *)
ToNumber(v) ==
  CASE v.k = "number"    -> [finite |-> TRUE, n |-> v.n]
    [] v.k = "infinity"  -> [finite |-> FALSE, n |-> 0]
    [] v.k = "undefined" -> [finite |-> FALSE, n |-> 0]
    [] v.k = "null"      -> [finite |-> TRUE, n |-> 0]
    [] v.k = "boolean"   -> [finite |-> TRUE, n |-> 100 * v.n]
    [] v.k = "string"    -> IF v.s = "" THEN [finite |-> TRUE, n |-> 0]
                            ELSE [finite |-> FALSE, n |-> 0]

(* clamp01 that returns every finite number as it is *)
clamp01Unclamped(v, fallback) ==
  LET n == ToNumber(v) IN
  IF ~n.finite THEN fallback ELSE n.n

(* clamp01(v, fallback) *)
clamp01(v, fallback) ==
  LET n == ToNumber(v) IN
  IF ~n.finite THEN fallback ELSE Max(0, Min(100, n.n))

(* normalizeTasteInput(raw) *)
normalizeTasteInput(raw) ==
  [f \in TasteFields |-> clamp01(raw[f], TasteDefault[f])]

(* a stored taste read back as an object *)
AsRaw(taste) == [f \in TasteFields |-> Num(taste[f])]

(* if (f.moreX != null) x = clamp01(Number(f.moreX), x) *)
Adjusted(current, more) ==
  IF more.k \in {"null", "undefined"} THEN current ELSE clamp01(more, current)

(* applyFeedback(taste, feedback) *)
applyFeedback(taste, f) ==
  LET t        == normalizeTasteInput(taste)
      humor    == Adjusted(t.humor, f.moreHumor)
      nerdy    == Adjusted(t.nerdy, f.moreNerdy)
      dramatic == Adjusted(t.dramatic, f.moreDramatic)
      shorter  == Adjusted(t.shorter, f.shorter)
  IN  [humor    |-> IF f.liked = Bool(TRUE) THEN clamp01(Num(humor + 3), humor) ELSE humor,
       nerdy    |-> nerdy,
       dramatic |-> dramatic,
       shorter  |-> IF f.liked = Bool(FALSE) THEN clamp01(Num(shorter + 5), shorter) ELSE shorter]

(* the values a field of a taste given by a client can hold *)
TasteValues == {Null, Str("abc"), Num(0 - 50), Num(40), Num(250), Infinite}

(* the tastes a client can give: objects with at most MaxTasteFields fields *)
RawTastes ==
  {r \in [TasteFields -> TasteValues \cup {Undefined}] :
     Cardinality({f \in TasteFields : r[f] # Undefined}) <= MaxTasteFields}

(* the feedback a client can give *)
Feedbacks ==
  [liked : {Undefined, Bool(TRUE), Bool(FALSE)},
   moreHumor : {Undefined, Num(250), Str("abc")},
   moreNerdy : {Undefined, Null},
   moreDramatic : {Undefined, Num(0 - 50)},
   shorter : {Undefined, Num(98)}]

(* saveTasteProfile(id, taste) with the taste of the request body *)
SaveTaste ==
  /\ \E raw \in RawTastes :
       \E t \in {normalizeTasteInput(raw)} :
         /\ byId' = [has |-> TRUE, taste |-> t]
         /\ tcall' = [op |-> "save", raw |-> raw, result |-> t, rounds |-> 0]
  /\ UNCHANGED <<graphVars, routeVars, handlerVars, placesVars, sharedVars, utilVars, serviceVars>>

(* getOrCreateTasteProfile: the taste stored under the id, or a new one   *)
(* made of the defaults                                                    *)
GetOrCreateTaste ==
  /\ \E t \in {IF byId.has THEN byId.taste ELSE normalizeTasteInput([f \in TasteFields |-> Undefined])} :
       /\ byId' = [has |-> TRUE, taste |-> t]
       /\ tcall' = [op |-> "get", raw |-> AsRaw(t), result |-> t, rounds |-> tcall.rounds]
  /\ UNCHANGED <<graphVars, routeVars, handlerVars, placesVars, sharedVars, utilVars, serviceVars>>

(* feedback on the stored taste: saveTasteProfile(id, applyFeedback(taste, *)
(* feedback))                                                              *)
FeedbackTaste ==
  /\ byId.has
  /\ tcall.rounds < MaxFeedbacks
  /\ \E f \in Feedbacks :
       \E t \in {normalizeTasteInput(AsRaw(applyFeedback(AsRaw(byId.taste), f)))} :
         /\ byId' = [has |-> TRUE, taste |-> t]
         /\ tcall' = [op |-> "feedback", raw |-> AsRaw(byId.taste), result |-> t,
                      rounds |-> tcall.rounds + 1]
  /\ UNCHANGED <<graphVars, routeVars, handlerVars, placesVars, sharedVars, utilVars, serviceVars>>

NextTaste ==
  \/ SaveTaste
  \/ GetOrCreateTaste
  \/ FeedbackTaste

(* Runs of tasteService.js on one tasteProfileId *)
SpecTaste == InitCache /\ [][NextTaste]_vars

(* The choice among enriched candidates --------------------------------- *)

(* candidates that pass the quality gate: distance, number of merged       *)
(* facts and the anchors of their meta                                     *)
CandIds == {"cA", "cB", "cC", "cD", "cE", "cF"}

CandInfo ==
  [c \in CandIds |->
     CASE c = "cA" -> [d |-> 500, factsCount |-> 5, meta |-> [NoMeta EXCEPT !.architect = TRUE]]
       [] c = "cB" -> [d |-> 400, factsCount |-> 5, meta |-> NoMeta]
       [] c = "cC" -> [d |-> 250, factsCount |-> 5, meta |-> NoMeta]
       [] c = "cD" -> [d |-> 250, factsCount |-> 5, meta |-> NoMeta]
       [] c = "cE" -> [d |-> 900, factsCount |-> 12,
                       meta |-> [NoMeta EXCEPT !.inception = TRUE, !.event = TRUE]]
       [] OTHER    -> [d |-> 1800, factsCount |-> 6, meta |-> [NoMeta EXCEPT !.heritage = TRUE]]]

(* the lists of distinct candidates, in the order of the POI list *)
CandLists ==
  {s \in UNION {[1..n -> CandIds] : n \in 0..MaxCandidates} :
     \A i, j \in 1..Len(s) : i # j => s[i] # s[j]}

(* c.d of a candidate *)
CandDistance == [c \in CandIds |-> CandInfo[c].d]

(* score of a candidate: computeFactScore(c.d, meta, facts.length) *)
CandScore == [c \in CandIds |-> computeFactScore(CandInfo[c].d, CandInfo[c].meta, CandInfo[c].factsCount)]

(* raw.sort((a, b) => a.d - b.d), then enriched.sort((a, b) => a.score -   *)
(* b.score) with the given scores, and enriched[0] or null                 *)
PickByScore(pois, score) ==
  LET raw      == StableSortByKey(pois, CandDistance)
      enriched == StableSortByKey(raw, score)
  IN  IF enriched = <<>> THEN None ELSE enriched[1]

(* the tail of pickBestPoiForUser over candidates that all pass the gate *)
pickEnriched(pois) == PickByScore(pois, CandScore)

(* some handler chooses among the candidates of a POI list *)
PickCall ==
  /\ \E pois \in CandLists :
       pick' = [done |-> TRUE, input |-> pois, result |-> pickEnriched(pois)]
  /\ UNCHANGED <<graphVars, tasteVars, routeVars, handlerVars, placesVars, sharedVars, utilVars, decision, story, ukey, block>>

(* Runs in which candidates are chosen *)
SpecPick == InitCache /\ [][PickCall]_vars

(* The knowledge-graph facts of a POI ----------------------------------- *)

(* the values of the first binding, in the order their facts are pushed *)
BindingFields == <<"instance", "desc", "inception", "namedAfter", "architect", "heritage", "event">>

(* facts.slice(0, 8) *)
MaxWikidataFacts == 8

(* How a query of the knowledge graph ends: the fetch throws (timeout,      *)
(* network, malformed body), the status is not 2xx, the body has no         *)
(* binding, or it has one, with some of its optional values.                *)
Lookups ==
  {[kind |-> k, fields |-> {}] : k \in {"throw", "status", "norow"}}
    \cup {[kind |-> "row", fields |-> f] : f \in {{}, {"instance", "inception", "architect"}}}

(* the result built from the outcome of a query: one fact per value of the *)
(* binding, labelled in the language asked for                             *)
ResultOf(qid, language, lookup) ==
  IF lookup.kind # "row" THEN EmptyFacts
  ELSE LET present == SelectSeqIn(BindingFields, lookup.fields)
           facts   == [i \in 1..Len(present) |-> [field |-> present[i], lang |-> language]]
       IN  [facts   |-> SubSeq(facts, 1, Min(MaxWikidataFacts, Len(facts))),
            sources |-> <<qid>>,
            meta    |-> lookup.fields]

(* the store of the result, whatever the outcome of the query was *)
StoreResultAlways(mem, key, lookup, result) ==
  [mem EXCEPT ![key] = [has |-> TRUE, value |-> result]]

(* wikidataFactsMemory.set(cacheKey, result) is reached only with a binding *)
StoreResult(mem, key, lookup, result) ==
  IF lookup.kind = "row" THEN [mem EXCEPT ![key] = [has |-> TRUE, value |-> result]] ELSE mem

(* fetchWikidataFacts(qid, language) *)
fetchWikidataFacts ==
  /\ \E qid \in Qids, language \in Languages :
       IF qid = ""
       THEN /\ wfacts' = [NoFactsCall EXCEPT !.done = TRUE, !.lang = language]
            /\ UNCHANGED <<wikidataFactsMemory, lastLookup>>
       ELSE \E key \in {cacheKey(qid, language)} :
              IF wikidataFactsMemory[key].has
              THEN /\ wfacts' = [done |-> TRUE, qid |-> qid, lang |-> language, queried |-> FALSE,
                                 before |-> lastLookup[key], outcome |-> NoLookup,
                                 result |-> wikidataFactsMemory[key].value]
                   /\ UNCHANGED <<wikidataFactsMemory, lastLookup>>
              ELSE \E lookup \in Lookups :
                     \E result \in {ResultOf(qid, language, lookup)} :
                       /\ wikidataFactsMemory' = StoreResult(wikidataFactsMemory, key, lookup, result)
                       /\ lastLookup' = [lastLookup EXCEPT ![key] = lookup]
                       /\ wfacts' = [done |-> TRUE, qid |-> qid, lang |-> language, queried |-> TRUE,
                                     before |-> lastLookup[key], outcome |-> lookup,
                                     result |-> result]
  /\ UNCHANGED <<tasteVars, routeVars, handlerVars, placesVars, sharedVars, utilVars, serviceVars>>

(* Runs in which the facts of POIs are fetched *)
SpecGraphFacts == InitCache /\ [][fetchWikidataFacts]_vars

(* The FACTS block ----------------------------------------------------- *)

(* the fact lines a POI can carry *)
FactLines == {"Built in 1890.", " built  in 1890. ", "Site of the 1967 War.", "A warm spring.", " ",
              "FACT 2: Opened in 1901."}

(* the fact lists a POI can carry *)
FactLists == UNION {[1..n -> FactLines] : n \in 0..MaxFactLines}

(* normalizeFactLine: trim, then runs of white space become one space *)
normalizeFactLine(s) ==
  CASE s = " built  in 1890. " -> "built in 1890."
    [] s = " "                 -> ""
    [] OTHER                   -> s

(* x.trim() of cleanFacts *)
TrimFact(s) ==
  CASE s = " built  in 1890. " -> "built  in 1890."
    [] s = " "                 -> ""
    [] OTHER                   -> s

(* isSensitiveLine: the lower-cased line matches /1948/, /\bwar\b/, ...    *)
(* ("a warm spring." has no word "war")                                    *)
isSensitiveLine(s) == ToLowerCase(s) \in {"site of the 1967 war."}

(* the N of a line that reads "FACT N: <text>", 0 for any other line *)
FactNumber(line) ==
  CASE line = "FACT 2: Opened in 1901." -> 2
    [] OTHER                            -> 0

(* facts.slice(0, 9).map((f, i) => `FACT ${i + 1}: ${f}`) with             *)
(* unshift(`FACT 0: Distance ...`) of the earlier revision of the handler: *)
(* each line as its number and its text                                    *)
factsLines(facts) ==
  <<[n |-> 0, text |-> "Distance from the driver: about 200 meters."]>>
    \o [i \in 1..Min(Len(facts), MaxNumberedFacts) |-> [n |-> i, text |-> facts[i]]]

(* the two header lines of the block: place name and distance *)
HeaderLines == <<"Place name: Cafe.", "Distance from the driver: about 200 meters.">>

(* the loop of buildFactsTextForModel over facts[i..]: normalise, skip     *)
(* blanks and lines seen before (whatever their case), stop at            *)
(* MaxBlockLines lines                                                     *)
RECURSIVE PushFacts(_, _, _, _)
PushFacts(facts, i, seen, lines) ==
  IF i > Len(facts) \/ Len(lines) >= MaxBlockLines THEN lines
  ELSE LET x == normalizeFactLine(facts[i])
           k == ToLowerCase(x)
       IN  IF x = "" \/ k \in seen
           THEN PushFacts(facts, i + 1, seen, lines)
           ELSE PushFacts(facts, i + 1, seen \cup {k}, Append(lines, x))

(* buildFactsTextForModel of server.js, as the sequence of its lines *)
buildFactsTextForModel(facts) == PushFacts(facts, 1, {}, HeaderLines)

(* cleanFacts(poi, max) of storyService.js, line by line *)
cleanFactLines(facts, max) ==
  LET trimmed == [i \in 1..Len(facts) |-> TrimFact(facts[i])]
      kept    == SelectSeq(trimmed, LAMBDA x : x # "" /\ ~isSensitiveLine(x))
  IN  SubSeq(kept, 1, Min(Len(kept), max))

(* some handler builds the FACTS block of the POI it chose *)
FactsBlockCall ==
  /\ \E facts \in FactLists :
       block' = [done |-> TRUE, facts |-> facts,
                 lines |-> buildFactsTextForModel(facts),
                 clean |-> cleanFactLines(facts, MaxCleanFacts),
                 numbered |-> factsLines(facts)]
  /\ UNCHANGED <<graphVars, tasteVars, routeVars, handlerVars, placesVars, sharedVars, utilVars, decision, story, ukey, pick>>

(* Runs in which FACTS blocks are built *)
SpecFacts == InitCache /\ [][FactsBlockCall]_vars

(* some caller asks for the POI of a location *)
FindBestPoiCall ==
  /\ \E validCoords \in BOOLEAN, places \in 0..MaxPlaces, placeFacts \in 0..MaxPlaceFacts,
        wikiFacts \in 0..MaxWikiFacts, personFacts \in 0..MaxPersonFacts :
       decision' = findBestPoi(validCoords, places, placeFacts, wikiFacts, personFacts)
  /\ UNCHANGED <<graphVars, tasteVars, routeVars, handlerVars, placesVars, sharedVars, utilVars, story, ukey, block, pick>>

(* some caller asks for the story of a POI *)
GenerateStoryCall ==
  /\ \E facts \in 0..MaxPoiFacts, sensitive \in 0..MaxSensitive, out \in {"story", "empty", "fail"} :
       /\ sensitive <= facts
       /\ story' = generateStoryText(facts, sensitive, out)
  /\ UNCHANGED <<graphVars, tasteVars, routeVars, handlerVars, placesVars, sharedVars, utilVars, decision, ukey, block, pick>>

NextService ==
  \/ FindBestPoiCall
  \/ GenerateStoryCall

(* Runs in which the two functions are called, in any order *)
SpecService == InitCache /\ [][NextService]_vars

(* Runs in which requests arrive and their user keys are resolved *)
SpecUserKey == InitCache /\ [][UserKeyCall]_vars

----------------------------------------------------------------------------
(* POST /api/story-both of src/routes.js.  The route hands the generation  *)
(* to generateBtwStory of ./story/storyGenerator.js, which is not among    *)
(* the sources: its steps (generate, validate, repair once, validate)      *)
(* follow sections 4.8 and 4.9 of the specification.  The radius loop is   *)
(* the one of Spec; here its outcome is an input.                          *)

(* CONFIG.BTW_MIN_WORDS, CONFIG.BTW_MAX_WORDS (defaults) *)
RouteMinWords == 180
RouteMaxWords == 340

(* What the generator may answer: a rejection, the literal NO_STORY, a     *)
(* compliant story, a story that is too short or too long, one that holds  *)
(* a banned filler phrase, one in two paragraphs.                          *)
Drafts == {"fail", "NO_STORY", "valid", "short", "long", "filler", "twoParagraphs"}

DraftInfo(d) ==
  CASE d = "short"         -> [words |-> 90,  filler |-> FALSE, paragraphs |-> 1]
    [] d = "long"          -> [words |-> 400, filler |-> FALSE, paragraphs |-> 1]
    [] d = "filler"        -> [words |-> 220, filler |-> TRUE,  paragraphs |-> 1]
    [] d = "twoParagraphs" -> [words |-> 220, filler |-> FALSE, paragraphs |-> 2]
    [] d = "NO_STORY"      -> [words |-> 1,   filler |-> FALSE, paragraphs |-> 1]
    [] OTHER               -> [words |-> 220, filler |-> FALSE, paragraphs |-> 1]

(* The validator: the tag of the first rule that fails, "ok" when all pass *)
ValidateStory(d) ==
  LET i == DraftInfo(d) IN
  IF d = "NO_STORY" THEN "model_no_story"
  ELSE IF i.words < RouteMinWords \/ i.words > RouteMaxWords THEN "bad_length"
  ELSE IF i.filler THEN "banned_filler"
  ELSE IF i.paragraphs > 1 THEN "not_one_paragraph"
  ELSE "ok"

(* NeedsRepair that also repairs after NO_STORY *)
NeedsRepairAlways(verdict) == verdict # "ok"

(* a second generation call is issued on a validator failure other than    *)
(* NO_STORY                                                                *)
NeedsRepair(verdict) == verdict \notin {"ok", "model_no_story"}

(* What generateBtwStory returns for a draft and its verdict: the text     *)
(* when the draft passed, no text and the reason otherwise.                *)
StoryOf(d, verdict, reason) ==
  IF verdict = "ok" THEN [text |-> d, reason |-> RouteReason("ok")]
  ELSE [text |-> "", reason |-> reason]

(* !story?.text || typeof story.text !== "string" || story.text.trim() === "" *)
StoryTextMissing(st) == st.text = ""

(* res.json(...) / res.status(500).json(...) *)
RouteRespond(r, status, speak, reason, told) ==
  /\ rt' = IdleRoute
  /\ rsent' = [status |-> status, speak |-> speak, reason |-> reason, text |-> r.text,
               calls |-> r.calls, first |-> r.first, firstReason |-> r.firstReason,
               repaired |-> r.repaired, repairReason |-> r.repairReason,
               told |-> told, ttsCalled |-> r.pc = "tts"]

(* Entry of the route: the check of the coordinates and the radius loop,   *)
(* which ends with a candidate or without one.                             *)
RouteStart ==
  /\ rt.pc = "idle"
  /\ rcount < MaxRouteRequests
  /\ rcount' = rcount + 1
  /\ \E hasLocation \in BOOLEAN, best \in {None, "wd:Q1", "wd:Q2"} :
       IF ~hasLocation
       THEN RouteRespond(IdleRoute, 200, FALSE, RouteReason("location_missing"), RouteReason("none"))
       ELSE IF best = None
       THEN RouteRespond(IdleRoute, 200, FALSE, RouteReason("no_strong_poi"), RouteReason("none"))
       ELSE /\ rt' = [IdleRoute EXCEPT !.pc = "draft", !.best = best]
            /\ UNCHANGED rsent
  /\ UNCHANGED <<graphVars, tasteVars, handlerVars, placesVars, sharedVars, utilVars, serviceVars>>

(* generateBtwStory has returned st: without a text the route answers      *)
(* model_no_story, otherwise it calls ttsWithOpenAI.                       *)
AfterStory(r, st) ==
  IF StoryTextMissing(st)
  THEN RouteRespond(r, 200, FALSE, RouteReason("model_no_story"), st.reason)
  ELSE /\ rt' = [r EXCEPT !.pc = "tts", !.text = st.text]
       /\ UNCHANGED rsent

(* The first call of the generator has settled.  A rejection leaves        *)
(* generateBtwStory as an exception and reaches the catch of the route.    *)
RouteDraft ==
  /\ rt.pc = "draft"
  /\ \E d \in Drafts :
       LET verdict == IF d = "fail" THEN "threw" ELSE ValidateStory(d)
           r == [rt EXCEPT !.calls = @ + 1, !.first = d, !.firstReason = verdict] IN
       IF d = "fail"
       THEN RouteRespond(r, 500, FALSE, RouteReason("error"), RouteReason("none"))
       ELSE IF NeedsRepair(verdict)
       THEN /\ rt' = [r EXCEPT !.pc = "repair"]
            /\ UNCHANGED rsent
       ELSE AfterStory(r, StoryOf(d, verdict, RouteReason(verdict)))
  /\ UNCHANGED <<graphVars, tasteVars, handlerVars, placesVars, sharedVars, utilVars, serviceVars, rcount>>

(* The repair call has settled; its draft is validated again.              *)
RouteRepair ==
  /\ rt.pc = "repair"
  /\ \E d \in Drafts :
       LET verdict == IF d = "fail" THEN "threw" ELSE ValidateStory(d)
           r == [rt EXCEPT !.calls = @ + 1, !.repaired = d, !.repairReason = verdict] IN
       IF d = "fail"
       THEN RouteRespond(r, 500, FALSE, RouteReason("error"), RouteReason("none"))
       ELSE AfterStory(r, StoryOf(d, verdict, FinalValidationFailed(verdict)))
  /\ UNCHANGED <<graphVars, tasteVars, handlerVars, placesVars, sharedVars, utilVars, serviceVars, rcount>>

(* ttsWithOpenAI has settled: an error reaches the catch of the route,     *)
(* otherwise the route waits for dbMarkHeard.                              *)
RouteTts ==
  /\ rt.pc = "tts"
  /\ \E ttsOk \in BOOLEAN :
       IF ttsOk
       THEN /\ rt' = [rt EXCEPT !.pc = "mark"]
            /\ UNCHANGED rsent
       ELSE RouteRespond(rt, 500, FALSE, RouteReason("error"), RouteReason("ok"))
  /\ UNCHANGED <<graphVars, tasteVars, handlerVars, placesVars, sharedVars, utilVars, serviceVars, rcount>>

(* dbMarkHeard has settled (its store belongs to ./db.js, which is not     *)
(* among the sources); the route sends the story.                          *)
RouteMark ==
  /\ rt.pc = "mark"
  /\ RouteRespond([rt EXCEPT !.pc = "tts"], 200, TRUE, RouteReason("ok"), RouteReason("ok"))
  /\ UNCHANGED <<graphVars, tasteVars, handlerVars, placesVars, sharedVars, utilVars, serviceVars, rcount>>

NextRoutes ==
  \/ RouteStart
  \/ RouteDraft
  \/ RouteRepair
  \/ RouteTts
  \/ RouteMark

(* Runs in which the clients call POST /api/story-both of src/routes.js,   *)
(* one request at a time                                                   *)
SpecRoutes == InitCache /\ [][NextRoutes]_vars

----------------------------------------------------------------------------
(* Properties *)

(* a response has been sent *)
Answered == sent.status # 0

(* C1: for every user u and POI p at most one response with                *)
(* shouldSpeak=true is ever returned for p to u, requests of one user that *)
(* overlap in time included (a row left by an earlier run counts as the    *)
(* one story of its pair).                                                 *)
C1_AtMostOnceSpoken == \A x \in Pairs : spoken[x] <= 1

(* C2: a request that ends in a silent decision or in an error response    *)
(* has left what a HeardSet read of its user yields, and the rows of       *)
(* user_place_history, as they were.                                       *)
C2_SilentLeavesHeardSet == (Answered /\ ~sent.speak) => ~sent.touched

(* C3: when ttsWithOpenAI fails the request is answered 500 and neither    *)
(* the in-memory history nor user_place_history changes: the POI is not    *)
(* marked heard.  (That a later request of the user then selects the same  *)
(* POI is the state C3_RetrySpoken.)                                       *)
C3_TtsFailureNotMarked ==
  [][\A s \in Slots :
       (req[s].pc = "tts" /\ req'[s].pc = "idle" /\ ~sent'.speak)
         => /\ sent'.status >= 500
            /\ ~sent'.marked
            /\ heardMem' = heardMem
            /\ heardDb' = heardDb]_vars

(* a request that started after the TTS failure of a POI for its user has  *)
(* spoken that POI to the user                                             *)
C3_RetrySpoken == sent.speak /\ sent.retry

(* C4: when the generator returns exactly NO_STORY the response is         *)
(* shouldSpeak=false with reason model_no_story, ttsWithOpenAI was not     *)
(* called and the request did not mark its POI heard.                      *)
C4_NoStorySilent ==
  sent.genOut = "NO_STORY"
    => /\ sent.status = 200
       /\ ~sent.speak
       /\ sent.reason = "model_no_story"
       /\ ~sent.ttsCalled
       /\ ~sent.marked

(* the generator returned NO_STORY for a chosen POI and the request was    *)
(* answered                                                                *)
C4_NoStoryAnswered == sent.genOut = "NO_STORY" /\ sent.poi = None /\ Answered

(* C5: on an accepted story the audio was synthesized and the POI marked    *)
(* heard before the response, so when a shouldSpeak=true response for p is *)
(* sent to u a HeardSet read of u yields p.                                *)
C5_HeardWhenSpoken ==
  sent.speak => /\ sent.ttsCalled
                /\ sent.marked
                /\ sent.poi \in sent.heardAtSend

(* the step of slot s that takes it from pc = from to another pc *)
Leaves(s, from) == req[s].pc = from /\ req'[s].pc # from

(* C6: markPlaceHeardForUser is idempotent: applied to a pair whose place  *)
(* is already in the user's Set it leaves the Set as it is, applied to a   *)
(* pair that has a row it leaves user_place_history as it is, and no pair  *)
(* ever has more than one row, however the requests interleave.            *)
C6_MarkHeardIdempotent ==
  [][\A s \in Slots :
       LET u == req[s].user
           p == req[s].best IN
       /\ (Leaves(s, "tts") /\ req'[s].marked /\ p \in heardMem[u].set)
            => heardMem' = heardMem
       /\ (Leaves(s, "markIns") /\ heardDb[<<u, p>>] > 0)
            => heardDb' = heardDb
       /\ \A x \in Pairs : heardDb'[x] <= 1]_vars

(* a pair was marked by two requests: both have answered, the place is in  *)
(* the user's Set and the pair has its one row                             *)
C6_MarkedTwice ==
  \E x \in Pairs :
    /\ pool
    /\ spoken[x] = 2
    /\ heardDb[x] = 1
    /\ x[2] \in heardMem[x[1]].set
    /\ \A s \in Slots : req[s].pc = "idle"

(* C7: HeardSet(userKey) only grows: no step removes a place from a user's *)
(* Set in memory or a row from user_place_history, first-read loads that   *)
(* overlap with marks included.                                            *)
C7_HeardSetOnlyGrows ==
  [][/\ \A u \in Users : heardMem[u].set \subseteq heardMem'[u].set
     /\ \A x \in Pairs : heardDb[x] <= heardDb'[x]]_vars

(* C8: the first HeardSet read for a user leaves the user's durable rows   *)
(* in memory, and a durable read is started for a user only while memory   *)
(* holds no Set for that user.                                             *)
C8_FirstReadLoadsRows ==
  [][\A s \in Slots :
       LET u == req[s].user IN
       /\ Leaves(s, "hsRes") => DbRows(u) \subseteq heardMem'[u].set
       /\ (req[s].pc # "hsSel" /\ req'[s].pc = "hsSel") => ~heardMem[req'[s].user].loaded]_vars

(* C9: a request one of whose database calls failed is not answered with   *)
(* an error for it and decides as it would have decided had the call       *)
(* succeeded: it does not speak a POI that had been spoken to its user     *)
(* when it started.                                                        *)
C9_StoreFailureSameDecision ==
  sent.dbFailed
    => /\ sent.status >= 500 => sent.reason \in {"generator_failed", "tts_failed"}
       /\ sent.speak => sent.poi \notin sent.spokenBefore

DbWaits == {"cacheSel", "cacheUps", "hsSel", "hsRes", "markIns", "logIns"}

(* C10: without a pool no request waits for the database or fails for want *)
(* of it (a request all of whose collaborators answered is answered 200,   *)
(* or 400 for a missing prompt); a POI spoken to a user, which was marked  *)
(* heard before its response, is not spoken again to that user by a        *)
(* request that starts afterwards; the Sets and the cache entries in       *)
(* memory stay, and the providers are asked for a radius only while memory *)
(* holds no entry for it.                                                  *)
C10_InMemoryOnly ==
  /\ [](~pool => /\ \A s \in Slots : req[s].pc \notin DbWaits
                 /\ (Answered /\ faults = 0) => sent.status \in {200, 400}
                 /\ sent.speak => sent.poi \notin sent.spokenBefore
                 /\ \A x \in Pairs : spoken[x] > 0 => x[2] \in heardMem[x[1]].set)
  /\ [][~pool => /\ \A u \in Users : heardMem[u].set \subseteq heardMem'[u].set
                 /\ \A k \in CacheKeys : cacheMem[k].present => cacheMem'[k].present
                 /\ \A s \in Slots : (req[s].pc # "fetch" /\ req'[s].pc = "fetch")
                                         => ~cacheMem[HandlerKey(req'[s].ri)].present]_vars

(* without a pool a request that started after a POI had been spoken to    *)
(* its user has spoken another POI to that user                            *)
C10_SecondStoryInMemory ==
  /\ ~pool
  /\ sent.speak
  /\ sent.spokenBefore # {}
  /\ sent.poi \notin sent.spokenBefore

(* C11: a request passes the radii to getNearbyPois in their listed,       *)
(* increasing order without leaving one out; once a radius has yielded a   *)
(* candidate no further radius is queried and the candidate lies within    *)
(* the last radius queried; the decision no_strong_poi is taken only after *)
(* every listed radius has been queried.                                   *)
C11_RadiusOrder ==
  /\ [](/\ \A s \in Slots : req[s].asked = SubSeq(Radii, 1, Len(req[s].asked))
        /\ \A i \in 1..(Len(Radii) - 1) : Radii[i] < Radii[i + 1]
        /\ (Answered /\ sent.reason = "no_strong_poi") => sent.asked = Radii
        /\ sent.speak => /\ sent.asked # <<>>
                         /\ PoiInfo[sent.poi].dist <= sent.asked[Len(sent.asked)])
  /\ [][\A s \in Slots :
          req[s].best # None
            => IF req'[s].pc = "idle" THEN sent'.asked = req[s].asked
               ELSE req'[s].asked = req[s].asked]_vars

(* a story was spoken for a candidate found at the third radius, after two *)
(* radii that yielded none                                                 *)
C11_FoundAtThirdRadius == sent.speak /\ sent.asked = <<400, 800, 1500>>

(* the list a provider returns for a radius when it answers *)
AdapterList(a, radius) ==
  CASE a = "osm" -> OsmList(radius)
    [] a = "wd"  -> WdList(radius)
    [] OTHER     -> GpList(radius)

(* no provider knows a place within any of the radii *)
AllAdaptersEmpty ==
  \A i \in DOMAIN Radii, a \in {"osm", "wd", "gp"} : AdapterList(a, Radii[i]) = <<>>

(* C12: when exactly one of the three providers fails in a round, the list *)
(* getNearbyPois stores and returns holds, up to de-duplication, what the  *)
(* other providers returned (the commercial provider counts when the two   *)
(* others gave nothing), and the request is not answered with an error for *)
(* it; when every provider returns an empty list at every radius the       *)
(* request is answered shouldSpeak=false with reason no_strong_poi.        *)
C12_OneAdapterErrorTolerated ==
  /\ []((Answered /\ sent.failed # {} /\ sent.status >= 500)
          => sent.reason \in {"generator_failed", "tts_failed"})
  /\ []((AllAdaptersEmpty /\ Answered /\ sent.asked # <<>>)
          => /\ sent.status = 200
             /\ ~sent.speak
             /\ sent.reason = "no_strong_poi")
  /\ [][\A s \in Slots :
          (req[s].pc = "fetch" /\ req'[s] # req[s])
            => LET f      == IF req'[s].pc = "idle" THEN sent'.failed ELSE req'[s].failed
                   radius == Radii[req[s].ri]
                   got    == cacheMem'[HandlerKey(req[s].ri)]
                   others == {"osm", "wd"} \ f
                   In(p)  == \E q \in Range(got.pois) : DedupeKey(q) = DedupeKey(p)
               IN  Cardinality(f) = 1
                     => /\ got.present
                        /\ \A a \in others : \A p \in Range(AdapterList(a, radius)) : In(p)
                        /\ ("gp" \notin f /\ \A a \in others : AdapterList(a, radius) = <<>>)
                             => \A p \in Range(GpList(radius)) : In(p)]_vars

(* the OSM provider failed in the last round of a request, and the request *)
(* spoke a story about the place the graph provider returned               *)
C12_SpokenDespiteOsmError == sent.speak /\ sent.failed = {"osm"} /\ sent.poi = "wd:Q1"

(* a GET /places response has been sent *)
PlacesAnswered == plast.status # 0

(* C13: a provider that fails (timeout, non-2xx status, missing            *)
(* credentials, malformed body) counts as a provider that returned no POI: *)
(* in every mode the caller of getNearbyPois gets a list, never the        *)
(* failure.                                                                *)
C13_AdapterFailureIsolated == plast.failed # {} => plast.status = 200

(* C14: in mode "interesting" the commercial places provider is called     *)
(* only when the OSM and the graph provider together returned no POI.      *)
C14_GoogleOnlyAsFallback ==
  (PlacesAnswered /\ "gp" \in plast.calls)
    => \/ plast.key[1] # "interesting"
       \/ plast.got.osm \o plast.got.wd = <<>>

(* a request in mode "interesting" called the commercial provider after    *)
(* the two others, and was answered                                        *)
C14_GoogleAskedAfterNothing ==
  plast.status = 200 /\ plast.key[1] = "interesting" /\ plast.calls = {"osm", "wd", "gp"}

(* the key the normalizer is specified with: the lowercased label and the  *)
(* coordinates rounded to four decimals                                    *)
LabelKey(p) ==
  <<ToLowerCase(PoiInfo[p].name), ToFixed4(PoiInfo[p].lat), ToFixed4(PoiInfo[p].lng)>>

C17_ServedOnlyWithinTtl == plast.hit => plast.age <= GeoCacheTtlHours

(* C18: cacheGet(k) returns a value only if that value is the one stored   *)
(* by the latest cacheSet under k and the time given with it has not       *)
(* passed; a read that meets an entry whose time has passed deletes the    *)
(* entry and returns null.                                                 *)
C18_TtlCacheGet ==
  /\ (tgot.done /\ tgot.result # None)
       => /\ tgot.result = tgot.latest
          /\ ~tgot.late
  /\ tgot.expired => (tgot.result = None /\ tgot.evicted)

(* a read met an entry whose time had passed, deleted it and returned null *)
C18_ExpiredEntryEvicted == tgot.done /\ tgot.expired /\ tgot.evicted /\ tgot.result = None

(* C19: every response with shouldSpeak=true carries a story text that is  *)
(* not empty, and its POI was chosen with at least 2 facts of which at     *)
(* least 1 is anchored.                                                    *)
C19_SpokenHasAnchoredFacts ==
  sent.speak => /\ sent.genOut = "story"
                /\ sent.facts >= 2
                /\ sent.anchors >= 1

(* C20: when the facts available are insufficient (fewer than the two a    *)
(* story needs) the decision is silent, and no fallback or filler text is  *)
(* ever returned for narration.                                            *)
C20_SilentWhenFactsWeak ==
  /\ (decision.done /\ ~decision.threw /\ decision.facts < MinStoryFacts) => ~decision.shouldSpeak
  /\ story.text # "fallback"

(* C21: every story returned with shouldSpeak=true has passed the          *)
(* validator: its word count lies within [BTW_MIN_WORDS, BTW_MAX_WORDS]    *)
(* and it is not NO_STORY (the texts of the model hold no filler and are   *)
(* one paragraph).                                                         *)
C21_SpokenStoryValidated ==
  sent.speak => /\ BtwMinWords <= WordCount(sent.genOut)
                /\ WordCount(sent.genOut) <= BtwMaxWords
                /\ ~IsNoStory(sent.genOut)

(* the tags of the validator rules a repair may follow *)
RepairableVerdicts == {"bad_length", "banned_filler", "not_one_paragraph"}

(* C22: within one request the generator is called at most twice; the      *)
(* second (repair) call is issued only after the validator rejected the    *)
(* first draft for a reason other than NO_STORY; after the repair call the *)
(* request only goes on to TTS or is answered, whatever the verdict on the *)
(* repaired draft.                                                         *)
C22_AtMostOneRepair ==
  /\ rt.calls <= 2
  /\ rsent.calls <= 2
  /\ rt.pc = "repair" => rt.calls = 1 /\ rt.firstReason \in RepairableVerdicts
  /\ rt.calls = 2 => rt.pc \in {"tts", "mark"} /\ rt.firstReason \in RepairableVerdicts
  /\ rsent.calls = 2 => rsent.firstReason \in RepairableVerdicts
  /\ rsent.first = "NO_STORY" => rsent.calls = 1

(* a request whose repaired draft failed validation too has been answered  *)
C22_RepairFailedAnswered ==
  /\ rsent.calls = 2
  /\ rsent.repairReason \in RepairableVerdicts
  /\ rsent.status = 200

(* C23: when the repaired draft fails validation the response is           *)
(* shouldSpeak=false with reason final_validation_failed_<subreason>, the   *)
(* subreason being the tag of the rule the repaired draft failed.          *)
C23_FinalValidationFailedReason ==
  (rsent.status = 200 /\ rsent.repairReason \in RepairableVerdicts \cup {"model_no_story"})
    => /\ ~rsent.speak
       /\ rsent.reason = FinalValidationFailed(rsent.repairReason)

(* a header that is missing, empty or blank *)
IsBlank(h) == ~h.given \/ h.value \in {"", " "}

(* the identifier an x-user-id header of the model carries *)
Identifier(h) == IF h.value = "u8" THEN "u8" ELSE "u7"

(* the client address a forwarded header of the model names first *)
FirstForwarded(h) ==
  IF h.value \in {"1.2.3.4", "1.2.3.4, 10.0.0.1"} THEN "1.2.3.4" ELSE ""

(* C28: the user key is the explicit identifier of the x-user-id header    *)
(* when that header is present and not empty; otherwise it is the client   *)
(* address the forwarded header names first; it is anon only when the      *)
(* request has neither.                                                    *)
C28_UserKeyResolution ==
  ukey.done =>
    /\ ~IsBlank(ukey.headerId) => ukey.result = UserKey("user", Identifier(ukey.headerId))
    /\ (IsBlank(ukey.headerId) /\ ~IsBlank(ukey.ipHeader))
         => ukey.result = UserKey("ip", FirstForwarded(ukey.ipHeader))
    /\ ukey.result.kind = "anon" => IsBlank(ukey.headerId) /\ IsBlank(ukey.ipHeader)

(* a request without identifier header was keyed by its forwarded address, *)
(* the first of a list                                                     *)
C28_KeyedByForwardedAddress ==
  /\ ukey.done
  /\ IsBlank(ukey.headerId)
  /\ ukey.ipHeader = Given("1.2.3.4, 10.0.0.1")
  /\ ukey.result = UserKey("ip", "1.2.3.4")

(* C24: a request without valid coordinates is answered with a 4xx status  *)
(* and has had no side effect: it called no adapter, wrote no cache entry  *)
(* and marked nothing heard.                                               *)
C24_InvalidCoordinatesRejected ==
  sent.reason = "location_missing"
    => /\ sent.status >= 400
       /\ sent.status < 500
       /\ sent.asked = <<>>
       /\ ~sent.marked
       /\ ~sent.touched

(* C25: when the call of the generator fails with a non-2xx answer the     *)
(* request fails with the status of that answer, and with 500 when the     *)
(* failure carries no status.                                              *)
C25_GeneratorFailureStatus ==
  sent.genOut = "fail"
    => sent.status = (IF sent.upstream # 0 THEN sent.upstream ELSE 500)

(* C27: every external call a request waits for (source adapters, fact     *)
(* lookups, generator, TTS) was made with a timeout, so that the wait ends *)
(* when the collaborator does not answer.                                  *)
C27_ExternalCallsBounded ==
  \A s \in Slots : \A call \in CallsAwaited(req[s].pc) : CallTimeoutMs(call) > 0

(* the fact lines of a block of server.js: what follows its header lines *)
BlockFacts == SubSeq(block.lines, Len(HeaderLines) + 1, Len(block.lines))

(* C29: no line of the FACTS block given to the generator is a sensitive   *)
(* fact, and every fact given that is not sensitive (and not blank) is in  *)
(* the block, in both builders.                                            *)
C29_SensitiveFactsFiltered ==
  block.done =>
    /\ \A i \in 1..Len(BlockFacts) : ~isSensitiveLine(BlockFacts[i])
    /\ \A i \in 1..Len(block.clean) : ~isSensitiveLine(block.clean[i])
    /\ \A i \in 1..Len(block.facts) :
         LET x == normalizeFactLine(block.facts[i]) IN
         (x # "" /\ ~isSensitiveLine(x))
           => /\ \E j \in 1..Len(BlockFacts) : ToLowerCase(BlockFacts[j]) = ToLowerCase(x)
              /\ \E j \in 1..Len(block.clean) : block.clean[j] = TrimFact(block.facts[i])

(* C30: whenever the selector has filtered the POIs of a radius, its       *)
(* candidates are exactly the POIs that are at most 2200 m away and not in *)
(* the HeardSet of the user at that time: no other POI is dropped and none *)
(* of the dropped ones is kept.                                            *)
C30_SelectorDropsFarAndHeard ==
  [][\A s \in Slots :
       (req'[s] # req[s] /\ req'[s].pc = "enrich")
         => Range(req'[s].raw)
              = {p \in Range(req'[s].pois) :
                   PoiInfo[p].dist <= 2200 /\ p \notin heardMem'[req'[s].user].set}]_vars

(* this step sends the response of some request *)
Responded ==
  \/ started' # started /\ req' = req
  \/ \E s \in Slots : req[s].pc # "idle" /\ req'[s].pc = "idle"

(* C26: story_logs only grows at its end, and it grows by exactly one      *)
(* record in each step that answers a request with a decision (spoken or   *)
(* silent, HTTP 200) and by none in any other step.                        *)
C26_OneRecordPerDecision ==
  [][/\ Len(storyLogs') >= Len(storyLogs)
     /\ SubSeq(storyLogs', 1, Len(storyLogs)) = storyLogs
     /\ Len(storyLogs') - Len(storyLogs)
          = (IF Responded /\ sent'.status = 200 THEN 1 ELSE 0)]_vars

(* C31: a candidate the selector has returned has a merged fact list of at *)
(* least 10 facts of which at least 2 are anchored (marked hasYear); the   *)
(* anchors of the code are the hard anchors countHardAnchors counts.       *)
C31_StoryPotentialGate ==
  \A s \in Slots :
    req[s].best # None => req[s].facts >= 10 /\ req[s].anchors >= 2

(* boost = min(|facts|, 20) * 80 + min(anchorCount, 10) * 220 and          *)
(* s = d - boost, as documented                                            *)
DocumentedScore(c) ==
  CandInfo[c].d - (Min(CandInfo[c].factsCount, 20) * 80
                   + Min(countHardAnchors(CandInfo[c].meta), 10) * 220)

(* C32: the candidate returned has the minimum documented score            *)
(* s = d - boost among the candidates that passed the gate.                *)
C32_MinimumDocumentedScore ==
  (pick.done /\ pick.input # <<>>)
    => \A i \in 1..Len(pick.input) : DocumentedScore(pick.result) <= DocumentedScore(pick.input[i])

(* C33: of the candidates that share the minimum score, the one returned   *)
(* is the one that comes first in the POI list given to the selector.      *)
C33_TieEarlierInInput ==
  (pick.done /\ pick.input # <<>>)
    => \E j \in 1..Len(pick.input) :
         /\ pick.input[j] = pick.result
         /\ \A i \in 1..(j - 1) : CandScore[pick.input[i]] # CandScore[pick.result]

(* C34: the FACTS block is its header lines followed by at most 18 facts,  *)
(* the N-th of them on a line that reads FACT N (N = 1, 2, ...); in the    *)
(* revision that numbers its lines the distance line FACT 0 is the header. *)
C34_FactsNumberedFromOne ==
  block.done =>
    /\ Len(BlockFacts) <= 18
    /\ \A i \in 1..Len(BlockFacts) : FactNumber(BlockFacts[i]) = i
    /\ Len(block.numbered) - 1 <= 18
    /\ \A i \in 2..Len(block.numbered) : block.numbered[i].n = i - 1

Pending == {s \in Slots : req[s].pc # "idle"}

(* C36: every request that reached the handler is answered exactly once:   *)
(* the responses sent so far and the requests still under way add up to    *)
(* the requests accepted, and every request under way is answered in the   *)
(* end, whatever its adapters, generator, TTS and store calls return.      *)
C36_ExactlyOneResponse ==
  /\ [](sent.nth + Cardinality(Pending) = started)
  /\ \A s \in Slots : (req[s].pc # "idle") ~> (req[s].pc = "idle")

(* two requests were accepted and both were answered, the second one with  *)
(* an error after its generator call failed                                *)
C36_AnsweredAfterFailure ==
  /\ started = MaxRequests
  /\ sent.nth = MaxRequests
  /\ Pending = {}
  /\ sent.status = 500
  /\ sent.genOut = "fail"

(* C37: with a database, a request none of whose own database calls failed *)
(* filters its POIs with a HeardSet that holds every row                   *)
(* user_place_history has for its user, so that none of these POIs is a    *)
(* candidate again, also when an earlier first read for the user failed.   *)
C37_DurableHistoryVisibleLater ==
  [][\A s \in Slots :
       (pool /\ req'[s] # req[s] /\ req'[s].pc = "enrich" /\ ~req'[s].dbFailed)
         => /\ DbRows(req'[s].user) \subseteq heardMem'[req'[s].user].set
            /\ Range(req'[s].raw) \cap DbRows(req'[s].user) = {}]_vars

(* C38: a round of getNearbyPois in which the OSM, the graph and the        *)
(* commercial provider all failed stores nothing: the memory cache keeps    *)
(* what it had under the round's key, and so does the places_cache table,   *)
(* so that the next call with the same key asks the providers again.        *)
C38_FailedRoundNotCached ==
  [][\A s \in Slots :
       /\ (req[s].pc = "fetch" /\ req'[s] # req[s])
            => LET f == IF req'[s].pc = "idle" THEN sent'.failed ELSE req'[s].failed
               IN  f = {"osm", "wd", "gp"}
                     => cacheMem'[HandlerKey(req[s].ri)] = cacheMem[HandlerKey(req[s].ri)]
       /\ (req[s].pc = "cacheUps" /\ req'[s] # req[s] /\ req[s].failed = {"osm", "wd", "gp"})
            => cacheDb'[HandlerKey(req[s].ri)] = cacheDb[HandlerKey(req[s].ri)]]_vars

====
